---- MODULE Spec2Model ----
(***************************************************************************)
(* A model of mindstone: the gate network's resolution loop                *)
(* (gatenetwork.py, GateNetwork._resolve_all) and the worker's request     *)
(* path (worker.py, Worker._on_receive).                                   *)
(***************************************************************************)
EXTENDS Integers, Sequences, FiniteSets, TLC

(***************************************************************************)
(* Bounds of the model.                                                    *)
(***************************************************************************)
\* epochs explored of a run that has no epoch ceiling
MaxEpochCap == 4
\* largest epoch ceiling handed to set_max_epochs
MaxCeiling == 3
\* items of one request batch
MaxItems == 2
\* readings of the clock the worker is followed for
MaxClock == 2

(***************************************************************************)
(* Python values.  A value is tagged with its type, as isinstance sees it: *)
(* None, an int, or a dict whose keys are strings.  A string is the        *)
(* sequence of its characters, so that "x.y".split(".") is computed.       *)
(***************************************************************************)
PyNone == [k |-> "none", v |-> 0]
PyInt(n) == [k |-> "int", v |-> n]
PyDict(f) == [k |-> "dict", v |-> f]
Raised(e) == [k |-> "raise", v |-> e]
PyList(s) == [k |-> "list", v |-> s]
PyBool(b) == [k |-> "bool", v |-> b]

EmptyMap == <<>>

IsDict(x) == x.k = "dict"

\* dict.update(a, b): the keys of b win
DictUpdate(a, b) == b @@ a

RECURSIVE SplitFrom(_, _, _)
SplitFrom(s, delimiter, acc) ==
    IF s = <<>> THEN <<acc>>
    ELSE IF Head(s) = delimiter THEN <<acc>> \o SplitFrom(Tail(s), delimiter, <<>>)
    ELSE SplitFrom(Tail(s), delimiter, Append(acc, Head(s)))

\* str.split(delimiter)
Split(s, delimiter) == SplitFrom(s, delimiter, <<>>)

\* key in value, line 137, for a value that is neither None nor a dict: a
\* substring test on a str, an element test on a list or a tuple, and
\* TypeError on a number
Contains(value, key) ==
    CASE value.k = "str" ->
             PyBool(\E i \in 0..(Len(value.v) - Len(key)) :
                        SubSeq(value.v, i + 1, i + Len(key)) = key)
      [] value.k \in {"list", "tuple"} ->
             PyBool(\E i \in DOMAIN value.v : value.v[i].k = "str" /\ value.v[i].v = key)
      [] OTHER -> Raised("TypeError")

\* _get_nested_util, line 135 to 140; value[key] of line 139 raises
\* TypeError on a str, a list and a tuple
RECURSIVE GetNestedUtil(_, _)
GetNestedUtil(route, mapping) ==
    LET key == Head(route)
        rest == Tail(route)
    IN  IF mapping = PyNone THEN PyNone
        ELSE IF ~IsDict(mapping)
             THEN IF Contains(mapping, key) = PyBool(FALSE) THEN PyNone
                  ELSE Raised("TypeError")
        ELSE IF key \notin DOMAIN mapping.v THEN PyNone
        ELSE IF rest = <<>> THEN mapping.v[key]
        ELSE GetNestedUtil(rest, mapping.v[key])

GetNested(keys, mapping) == GetNestedUtil(Split(keys, "."), mapping)

(***************************************************************************)
(* A Python dict that is iterated keeps its insertion order: a sequence of *)
(* <<key, value>> pairs with distinct keys.                                *)
(***************************************************************************)
ODKeys(d) == {d[i][1] : i \in DOMAIN d}
ODGet(d, key) == d[CHOOSE i \in DOMAIN d : d[i][1] = key][2]
ODPop(d, key) == SelectSeq(d, LAMBDA p : p[1] # key)
ODSet(d, key, value) ==
    IF key \in ODKeys(d)
    THEN [i \in DOMAIN d |-> IF d[i][1] = key THEN <<key, value>> ELSE d[i]]
    ELSE Append(d, <<key, value>>)
RECURSIVE ODUpdate(_, _)
ODUpdate(d, e) ==
    IF e = <<>> THEN d ELSE ODUpdate(ODSet(d, Head(e)[1], Head(e)[2]), Tail(e))
ODAsMap(d) == [key \in ODKeys(d) |-> ODGet(d, key)]

\* a mapping without one key (dict.pop on a dict that is not iterated)
MapPop(m, key) == [x \in DOMAIN m \ {key} |-> m[x]]
MapSet(m, key, value) == (key :> value) @@ m

\* inner_merge on a dict that is iterated (to_be_evaluated)
InnerMerge(to_update, key, mapping) ==
    IF key \in ODKeys(to_update) /\ IsDict(ODGet(to_update, key))
    THEN ODSet(to_update, key, PyDict(DictUpdate(ODGet(to_update, key).v, mapping.v)))
    ELSE ODSet(to_update, key, mapping)

\* inner_merge on a dict that is only looked up (unsatisfied)
InnerMergeMap(to_update, key, mapping) ==
    IF key \in DOMAIN to_update
    THEN MapSet(to_update, key, DictUpdate(to_update[key], mapping))
    ELSE MapSet(to_update, key, mapping)

\* the orders in which a set can be iterated
Orders(S) == {s \in [1..Cardinality(S) -> S] : \A i, j \in DOMAIN s : i # j => s[i] # s[j]}


(***************************************************************************)
(* Building a gate network (GateNetwork.add_gate, add_edge,                *)
(* add_conditional_edge).  A network is the graph (tag -> successor tags), *)
(* the conditional-edge table and each gate's procedure.  A procedure is   *)
(* user code: it is modelled by the set of results it may return.          *)
(***************************************************************************)
EmptyNetwork == [graph |-> EmptyMap, conditional_edges |-> EmptyMap, procedure |-> EmptyMap]

\* _graph.add_node(self, tag, Gate(procedure)): a new gate has no successors
AddGate(n, tag, proc) ==
    [n EXCEPT !.graph = MapSet(@, tag, {}), !.procedure = MapSet(@, tag, proc)]

\* _graph.add_edge: a self-loop raises ValueError and leaves the graph as it was
AddEdge(n, from_tag, to_tag) ==
    IF from_tag = to_tag THEN n
    ELSE [n EXCEPT !.graph[from_tag] = @ \cup {to_tag}]

\* an evaluator is a binary predicate: equality (the default), a constant,
\* or the negation of one of these (the fallback's lambda)
Evaluator(f) == [f |-> f, neg |-> FALSE]
Negated(evaluator) == [evaluator EXCEPT !.neg = ~@]
Evaluate(evaluator, a, b) ==
    LET base == CASE evaluator.f = "eq" -> a = b
                  [] evaluator.f = "true" -> TRUE
                  [] evaluator.f = "false" -> FALSE
    IN  IF evaluator.neg THEN ~base ELSE base

AddOneConditionalEdge(n, from_tag, to_tag, target, path, evaluator) ==
    AddEdge([n EXCEPT !.conditional_edges =
                 MapSet(@, <<from_tag, to_tag>>,
                        [path |-> path, evaluator |-> evaluator, target |-> target])],
            from_tag, to_tag)

\* add_conditional_edge; fallback_tag = "" stands for None
AddConditionalEdge(n, from_tag, to_tag, target, path, evaluator, fallback_tag) ==
    LET first == AddOneConditionalEdge(n, from_tag, to_tag, target, path, evaluator)
    IN  IF fallback_tag # ""
        THEN AddOneConditionalEdge(first, from_tag, fallback_tag, target, path,
                                   Negated(evaluator))
        ELSE first

RECURSIVE AddEdges(_, _)
AddEdges(n, edges) ==
    IF edges = <<>> THEN n
    ELSE AddEdges(AddEdge(n, Head(edges)[1], Head(edges)[2]), Tail(edges))

RECURSIVE AddGates(_, _)
AddGates(n, gates) ==
    IF gates = <<>> THEN n
    ELSE AddGates(AddGate(n, Head(gates)[1], Head(gates)[2]), Tail(gates))

\* _graph.get_in_neighbors
GetInNeighbors(graph, key) == {g \in DOMAIN graph : key \in graph[g]}

\* _graph.get_out_neighbors
GetOutNeighbors(graph, key) == graph[key]

\* _graph.get_isolated: the keys of in-degree and out-degree 0
GetIsolated(graph) ==
    {key \in DOMAIN graph :
        Cardinality(GetInNeighbors(graph, key)) = 0
            /\ Cardinality(GetOutNeighbors(graph, key)) = 0}

(***************************************************************************)
(* Results a procedure may return.                                          *)
(***************************************************************************)
Kx == <<"x">>
Ky == <<"y">>
PathX == <<"x">>
PathXY == <<"x", ".", "y">>
X1 == PyDict(Kx :> PyInt(1))
X0 == PyDict(Kx :> PyInt(0))
Y1 == PyDict(Ky :> PyInt(1))
X0Y0 == PyDict((Kx :> PyInt(0)) @@ (Ky :> PyInt(0)))
XY1 == PyDict(Kx :> PyDict(Ky :> PyInt(1)))
Empty == PyDict(EmptyMap)
Seven == PyInt(7)

Mappings == {X1, X0, Y1, Empty, XY1}
AnyResult == Mappings \cup {PyNone, Seven}

(***************************************************************************)
(* The networks the runs are started on.                                    *)
(***************************************************************************)
\* A -> B -> C, no conditionals
Chain ==
    AddEdges(AddGates(EmptyNetwork, << <<"A", {X1, PyNone, Seven}>>, <<"B", {Y1, X0}>>,
                                       <<"C", {X1, Empty}>> >>),
             << <<"A", "B">>, <<"B", "C">> >>)

\* a single gate
Single == AddGate(EmptyNetwork, "A", AnyResult)

\* the conditional loop A -> B -> A
ConditionalLoop ==
    AddConditionalEdge(
        AddConditionalEdge(
            AddGates(EmptyNetwork, << <<"A", {X1, X0, Seven}>>, <<"B", {X1, X0}>> >>),
            "A", "B", PyInt(1), PathX, Evaluator("eq"), ""),
        "B", "A", PyInt(1), PathX, Evaluator("eq"), "")

FallbackGates == << <<"A", AnyResult>>, <<"B", {Y1}>>, <<"C", {Y1, PyNone}>> >>

\* A -> B if x == 1, else A -> C
Fallback ==
    AddConditionalEdge(AddGates(EmptyNetwork, FallbackGates),
                       "A", "B", PyInt(1), PathX, Evaluator("eq"), "C")

\* A -> B if x.y == 1, else A -> C
FallbackNested ==
    AddConditionalEdge(AddGates(EmptyNetwork, FallbackGates),
                       "A", "B", PyInt(1), PathXY, Evaluator("eq"), "C")

\* A -> B on a predicate that is always false, else A -> C
FallbackFalse ==
    AddConditionalEdge(AddGates(EmptyNetwork, FallbackGates),
                       "A", "B", PyInt(1), PathX, Evaluator("false"), "C")

\* A -> B, A -> C, B -> D, C -> D
Diamond ==
    AddEdges(AddGates(EmptyNetwork, << <<"A", {X1}>>, <<"B", {X0, Y1}>>, <<"C", {X1, X0Y0}>>,
                                       <<"D", {Empty}>> >>),
             << <<"A", "B">>, <<"A", "C">>, <<"B", "D">>, <<"C", "D">> >>)

\* the parents A and B of C produce their results one epoch apart
Join2 ==
    AddEdges(AddGates(EmptyNetwork, << <<"A", {X1, PyNone}>>, <<"B", {X0, Y1}>>,
                                       <<"C", {Empty}>> >>),
             << <<"A", "B">>, <<"A", "C">>, <<"B", "C">> >>)

\* the parents A, B and C of D produce their results in three epochs
Join3 ==
    AddEdges(AddGates(EmptyNetwork, << <<"A", {X1}>>, <<"B", {X0, Y1}>>, <<"C", {Y1}>>,
                                       <<"D", {Empty}>> >>),
             << <<"A", "B">>, <<"B", "C">>, <<"A", "D">>, <<"B", "D">>, <<"C", "D">> >>)

\* the unconditional cycle A -> B -> A
Cycle ==
    AddEdges(AddGates(EmptyNetwork, << <<"A", {X1, PyNone}>>, <<"B", {X0, Seven}>> >>),
             << <<"A", "B">>, <<"B", "A">> >>)

\* the cycle A -> B -> A with the sink C behind B
CycleSink ==
    AddEdges(AddGates(EmptyNetwork, << <<"A", {X1}>>, <<"B", {X0}>>, <<"C", {X1, Y1}>> >>),
             << <<"A", "B">>, <<"B", "A">>, <<"B", "C">> >>)

\* the cycle A -> B -> A where B also waits for C, and the sink D behind A
CycleJoin ==
    AddEdges(AddGates(EmptyNetwork, << <<"A", {X1}>>, <<"B", {X0}>>, <<"C", {Y1}>>,
                                       <<"D", {Empty, Y1}>> >>),
             << <<"A", "B">>, <<"B", "A">>, <<"C", "B">>, <<"A", "D">> >>)

\* D has the unconditional parents A and B and the conditional parent C
Mixed ==
    AddConditionalEdge(
        AddEdges(AddGates(EmptyNetwork, << <<"A", {X1}>>, <<"B", {Y1}>>, <<"C", {X1, X0}>>,
                                           <<"D", {Empty}>>, <<"E", {Empty}>> >>),
                 << <<"A", "B">>, <<"A", "C">>, <<"A", "D">>, <<"B", "D">>, <<"D", "E">> >>),
        "C", "D", PyInt(1), PathX, Evaluator("eq"), "")

\* the sink C is reached from A over conditional paths of length 1 and 2
TwoPaths ==
    AddConditionalEdge(
        AddConditionalEdge(
            AddEdges(AddGates(EmptyNetwork, << <<"A", {X1, X0}>>, <<"B", {X1, X0}>>,
                                               <<"C", {X1, Y1}>> >>),
                     << <<"A", "B">> >>),
            "A", "C", PyInt(1), PathX, Evaluator("eq"), ""),
        "B", "C", PyInt(1), PathX, Evaluator("eq"), "")

\* the chain and the cycle beside a gate nothing is connected to
ChainIsolated == AddGate(Chain, "E", {X1, Seven})
CycleIsolated == AddGate(Cycle, "C", {Y1})

\* tags are Hashable (add_gate, line 100): the tags of these networks are the
\* ints 1, 2 and 3, written by their digits
IntTags == {"1", "2", "3"}
IsStr(tag) == tag \notin IntTags

\* 1 -> 2
Numbered ==
    AddEdges(AddGates(EmptyNetwork, << <<"1", {X1}>>, <<"2", {Y1, Empty}>> >>),
             << <<"1", "2">> >>)

\* 1 -> 2 beside the gate 3 nothing is connected to
NumberedIsolated == AddGate(Numbered, "3", {X1})

Networks == {Chain, Single, ConditionalLoop, Fallback, FallbackNested, FallbackFalse, Diamond,
             Join2, Join3, Cycle, CycleSink, CycleJoin, Mixed, TwoPaths,
             ChainIsolated, CycleIsolated, Numbered, NumberedIsolated}

(***************************************************************************)
(* State.                                                                   *)
(***************************************************************************)
VARIABLES
    graph,                   \* GateNetwork as a dict: tag -> the gate's successor tags
    conditional_edges,       \* GateNetwork._conditional_edges
    procedure,               \* Gate._procedure of every gate
    max_epochs,              \* GateNetwork._max_epochs (PyNone, or PyInt(n) with n >= 1)
    epoch_count,             \* GateNetwork.epoch_count
    pc,                      \* position of _resolve_all
    current_generation,      \* locals of _resolve_all
    current_generation_copy,
    unsatisfied,
    resolved,
    to_be_evaluated,
    next_generation,         \* the dict built at line 212
    tag_index,               \* position of the loop of line 174 in the copy
    children_left,           \* successors of the current tag the loop of line 182 has not visited
    raised,                  \* the exception that ended the run, "" when none
    log,                     \* history: the executions of the run, in order
    warned                   \* the messages run handed to warnings.warn, in order

gn_vars == <<graph, conditional_edges, procedure, max_epochs, epoch_count, pc,
             current_generation, current_generation_copy, unsatisfied, resolved,
             to_be_evaluated, next_generation, tag_index, children_left, raised, log,
             warned>>

VARIABLES
    platform,       \* Worker._platform: PyNone, or the platform's components in insertion order
    routines,       \* Worker._routines, in insertion order
    clock,          \* time.time()
    worker_pc,      \* position of the request path: "idle", or "items" inside the loop of line 154
    received_time,  \* feedback_to_send["received_time"] of the request being handled
    items_left,     \* how many items of the batch the loop of line 154 has not reached
    merged,         \* the local response of _process_request_items
    items,          \* the items of the request being handled, <<>> outside the loop of line 154
    start,          \* the registries as they were when the request was received
    response,       \* what the last call of _on_receive returned: <<>> or <<the mapping>>
    propagated      \* the exception the last call of _on_receive let through, "" when none

worker_vars == <<platform, routines, clock, worker_pc, received_time, items_left, merged,
                 items, start, response, propagated>>

VARIABLES
    sched_pc,       \* the routines thread: "off", "sleep" (line 198), "scan" (the loop of
                    \* line 177), "visit" (the loop of line 181), "dead" (an exception ended it)
    now,            \* time.time() - start_time, in milliseconds
    horizon,        \* the milliseconds the thread is followed for
    to_update,      \* the local to_update of _run_routines
    iter_size,      \* the size of _routines when the running for loop made its iterator
    iter_pos,       \* the position the iterator of the running for loop is at
    sched_raised,   \* the exception that ended the thread, "" when none
    fired,          \* history: the routines fired and when
    mutations       \* history: the items the request path handled beside the thread

sched_vars == <<sched_pc, now, horizon, to_update, iter_size, iter_pos, sched_raised, fired,
                mutations>>

VARIABLES
    dgraph,         \* the dict the functions of _graph.py are called on: key -> successor keys
    call,           \* history: the last call made, with its arguments
    outcome,        \* what the last call raised ("" when nothing) and returned
    to_encode,      \* the mapping encode_transaction was given, <<>> before the call
    to_decode,      \* the bytes in flight: <<>> or <<the msgpack value>>
    decoded         \* what decode_request or decode_response made of the bytes

lib_vars == <<dgraph, call, outcome, to_encode, to_decode, decoded>>

VARIABLES
    client,             \* ControllerABC.client: PyNone, or the client that was set
    request_items,      \* ControllerABC._request_items, in queueing order
    platform_type_key,  \* ControllerABC._platform_type_key
    gate_feed,          \* Gate.feed
    gate_pc,            \* position of Gate.run: "idle", or "procedure" inside the procedure
    handed,             \* history: the batches handed to the client since the last call began
    activation          \* history: <<the call of Gate.run>> until the next call on the gate,
                        \* <<>> otherwise: its input, the batch it found, what its procedure
                        \* queued, and the gate as the procedure left it

ctl_vars == <<client, request_items, platform_type_key, gate_feed, gate_pc, handed, activation>>

vars == <<graph, conditional_edges, procedure, max_epochs, epoch_count, pc,
          current_generation, current_generation_copy, unsatisfied, resolved,
          to_be_evaluated, next_generation, tag_index, children_left, raised, log, warned,
          platform, routines, clock, worker_pc, received_time, items_left, merged,
          items, start, response, propagated,
          sched_pc, now, horizon, to_update, iter_size, iter_pos, sched_raised, fired,
          mutations, dgraph, call, outcome, to_encode, to_decode, decoded,
          client, request_items, platform_type_key, gate_feed, gate_pc, handed, activation>>

\* a worker that has served nothing: line 61 to 63
InitWorker ==
    /\ platform = PyNone
    /\ routines = <<>>
    /\ clock = 0
    /\ worker_pc = "idle"
    /\ received_time = 0
    /\ items_left = 0
    /\ merged = EmptyMap
    /\ items = <<>>
    /\ start = <<>>
    /\ response = <<>>
    /\ propagated = ""

\* line 64: the routines thread exists and has not been started
InitSchedulerOff ==
    /\ sched_pc = "off"
    /\ now = 0
    /\ horizon = 0
    /\ to_update = EmptyMap
    /\ iter_size = 0
    /\ iter_pos = 0
    /\ sched_raised = ""
    /\ fired = <<>>
    /\ mutations = <<>>

\* no graph is being edited and nothing is in flight
InitLibraryOff ==
    /\ dgraph = EmptyMap
    /\ call = <<>>
    /\ outcome = <<>>
    /\ to_encode = <<>>
    /\ to_decode = <<>>
    /\ decoded = <<>>

\* a gate as __init__ leaves it when no client details are given:
\* controller.py line 74 to 77, gatenetwork.py line 33
InitControllerOff ==
    /\ client = PyNone
    /\ request_items = <<>>
    /\ platform_type_key = PyNone
    /\ gate_feed = PyNone
    /\ gate_pc = "idle"
    /\ handed = <<>>
    /\ activation = <<>>

(***************************************************************************)
(* GateNetwork.run and _resolve_all.                                        *)
(***************************************************************************)
CurrentTag == current_generation_copy[tag_index][1]
CurrentResult == current_generation_copy[tag_index][2]

\* the epoch ceilings set_max_epochs accepts (n < 1 raises ValueError)
Ceilings == {PyNone} \cup {PyInt(n) : n \in 1..MaxCeiling}

InitGateNetwork ==
    /\ \E n \in Networks :
          /\ graph = n.graph
          /\ conditional_edges = n.conditional_edges
          /\ procedure = n.procedure
    /\ max_epochs \in Ceilings
    /\ epoch_count = 0
    /\ pc = "idle"
    /\ current_generation = <<>>
    /\ current_generation_copy = <<>>
    /\ unsatisfied = EmptyMap
    /\ resolved = EmptyMap
    /\ to_be_evaluated = <<>>
    /\ next_generation = <<>>
    /\ tag_index = 0
    /\ children_left = {}
    /\ raised = ""
    /\ log = <<>>
    /\ warned = <<>>

\* one execution of a gate, as the history records it; the start gate runs in
\* epoch 0, the gates of the n-th pass of the loop in epoch n
Execution(tag, feed, result, epoch) ==
    [tag |-> tag, feed |-> feed, result |-> result, epoch |-> epoch]

\* an exception leaves run and _resolve_all
Raise(exception) ==
    /\ pc' = "raised"
    /\ raised' = exception
    /\ UNCHANGED <<graph, conditional_edges, procedure, warned, max_epochs, epoch_count,
                   current_generation, current_generation_copy, unsatisfied, resolved,
                   to_be_evaluated, next_generation, tag_index, children_left, log>>

\* run, line 79, 80: a network of more than one gate that has isolated gates
Warns(g) == Cardinality(GetIsolated(g)) # 0 /\ Cardinality(DOMAIN g) > 1

\* ', '.join(isolated), line 81: str.join raises TypeError on an item that is
\* not a str
JoinRaises(isolated) == \E tag \in isolated : ~IsStr(tag)

\* run, line 75 to 83, and line 164 to 170 of _resolve_all: the warning, then
\* the start gate runs on the caller's feed and seeds current
Run(starting_tag, initial_feed) ==
    /\ pc = "idle"
    /\ UNCHANGED <<worker_vars, sched_vars, lib_vars, ctl_vars>>
    /\ starting_tag \in DOMAIN graph
    /\ IF Warns(graph) /\ JoinRaises(GetIsolated(graph))
       THEN Raise("TypeError")
       ELSE /\ warned' = IF Warns(graph) THEN <<GetIsolated(graph)>> ELSE <<>>
            /\ \E result \in procedure[starting_tag] :
                  /\ current_generation' = <<<<starting_tag, result>>>>
                  /\ log' = <<Execution(starting_tag, initial_feed, result, 0)>>
            /\ unsatisfied' = EmptyMap
            /\ resolved' = EmptyMap
            /\ epoch_count' = 0
            /\ pc' = "loop"
            /\ UNCHANGED <<graph, conditional_edges, procedure, max_epochs,
                           current_generation_copy, to_be_evaluated, next_generation,
                           tag_index, children_left, raised>>

\* line 172, 173: an epoch starts from a snapshot of current
BeginEpoch ==
    /\ pc = "loop"
    /\ UNCHANGED <<worker_vars, sched_vars, lib_vars, ctl_vars>>
    /\ epoch_count < MaxEpochCap
    /\ to_be_evaluated' = <<>>
    /\ next_generation' = <<>>
    /\ current_generation_copy' = current_generation
    /\ tag_index' = 1
    /\ children_left' = graph[current_generation[1][1]]
    /\ pc' = "for"
    /\ UNCHANGED <<graph, conditional_edges, procedure, warned, max_epochs, epoch_count,
                   current_generation, unsatisfied, resolved, raised, log>>

\* the loop of line 182 goes on with the successors that are left, and once none
\* is left the loop of line 174 moves to the next tag of the snapshot
Advance(left) ==
    IF left # {}
    THEN /\ children_left' = left
         /\ UNCHANGED <<tag_index, pc>>
    ELSE /\ tag_index' = tag_index + 1
         /\ children_left' = IF tag_index + 1 <= Len(current_generation_copy)
                             THEN graph[current_generation_copy[tag_index + 1][1]]
                             ELSE {}
         /\ pc' = IF tag_index + 1 <= Len(current_generation_copy) THEN "for" ELSE "execute"

\* line 178 without the test
HasNoChildrenAlways(tag) == TRUE

\* line 178 to 180
HasNoChildren(tag) == graph[tag] = {}

ResolveSink ==
    /\ pc = "for"
    /\ UNCHANGED <<worker_vars, sched_vars, lib_vars, ctl_vars>>
    /\ HasNoChildren(CurrentTag)
    /\ IF CurrentTag \in ODKeys(current_generation)
       THEN /\ resolved' = MapSet(resolved, CurrentTag, ODGet(current_generation, CurrentTag))
            /\ current_generation' = ODPop(current_generation, CurrentTag)
            /\ Advance({})
            /\ UNCHANGED <<graph, conditional_edges, procedure, warned, max_epochs, epoch_count,
                           current_generation_copy, unsatisfied, to_be_evaluated,
                           next_generation, raised, log>>
       ELSE Raise("KeyError")

\* line 184 alone: the current tag is the only parent asked for
OnlyCurrentParent(child_tag) == {CurrentTag}

\* line 195, 196
UnconditionalParents(child_tag) ==
    {parent_tag \in GetInNeighbors(graph, child_tag) :
        <<parent_tag, child_tag>> \notin DOMAIN conditional_edges}

\* line 198, 199
Descendants(child_tag) ==
    DictUpdate(IF child_tag \in DOMAIN unsatisfied THEN unsatisfied[child_tag] ELSE EmptyMap,
               ODAsMap(current_generation_copy))

\* line 200
Satisfied(parents, descendants) == parents \subseteq DOMAIN descendants

\* line 201 to 205 without the update of line 205
SuperResultEmpty(order, descendants) == EmptyMap

\* line 201 to 205: the parents' results merged in the order the set is iterated
RECURSIVE SuperResult(_, _)
SuperResult(order, descendants) ==
    IF order = <<>> THEN EmptyMap
    ELSE LET r == descendants[order[Len(order)]]
         IN  DictUpdate(SuperResult(SubSeq(order, 1, Len(order) - 1), descendants),
                        IF r # PyNone THEN r.v ELSE EmptyMap)

\* line 204 left out: the parents stay in the generation
PopNothing(d, keys) == d

\* line 202 to 204: the parents are removed from the generation
RECURSIVE PopAll(_, _)
PopAll(d, keys) ==
    IF keys = {} THEN d
    ELSE LET key == CHOOSE x \in keys : TRUE IN PopAll(ODPop(d, key), keys \ {key})

\* line 198 to 210, for a successor whose edge is live
Propagate(child_tag, parents) ==
    LET descendants == Descendants(child_tag)
        popped == MapPop(unsatisfied, child_tag)
    IN  IF Satisfied(parents, descendants)
        THEN IF \E p \in parents : descendants[p].k \notin {"dict", "none"}
             THEN Raise("TypeError")
             ELSE /\ \E order \in Orders(parents) :
                        to_be_evaluated' = InnerMerge(to_be_evaluated, child_tag,
                                                      PyDict(SuperResult(order, descendants)))
                  /\ current_generation' = PopAll(current_generation, parents)
                  /\ unsatisfied' = popped
                  /\ Advance(children_left \ {child_tag})
                  /\ UNCHANGED <<graph, conditional_edges, procedure, warned, max_epochs, epoch_count,
                                 current_generation_copy, resolved, next_generation, raised,
                                 log>>
        ELSE /\ unsatisfied' = InnerMergeMap(popped, child_tag, CurrentTag :> CurrentResult)
             /\ Advance(children_left \ {child_tag})
             /\ UNCHANGED <<graph, conditional_edges, procedure, warned, max_epochs, epoch_count,
                            current_generation, current_generation_copy, resolved,
                            to_be_evaluated, next_generation, raised, log>>

\* line 188, 193: the successor is not live in this epoch
Skip(child_tag) ==
    /\ Advance(children_left \ {child_tag})
    /\ UNCHANGED <<graph, conditional_edges, procedure, warned, max_epochs, epoch_count,
                   current_generation, current_generation_copy, unsatisfied, resolved,
                   to_be_evaluated, next_generation, raised, log>>

\* line 182 to 210, for one successor of the current tag; a set is iterated in
\* an order the program does not choose
ProcessChild(child_tag) ==
    /\ pc = "for"
    /\ UNCHANGED <<worker_vars, sched_vars, lib_vars, ctl_vars>>
    /\ child_tag \in children_left
    /\ IF <<CurrentTag, child_tag>> \in DOMAIN conditional_edges
       THEN LET conditional_edge == conditional_edges[<<CurrentTag, child_tag>>]
                value == GetNested(conditional_edge.path, CurrentResult)
            IN  IF ~IsDict(CurrentResult) THEN Skip(child_tag)
                ELSE IF value.k = "raise" THEN Raise(value.v)
                ELSE IF ~Evaluate(conditional_edge.evaluator, value, conditional_edge.target)
                     THEN Skip(child_tag)
                ELSE Propagate(child_tag, {CurrentTag})
       ELSE Propagate(child_tag, UnconditionalParents(child_tag))

\* line 212, 213: the gates of to_be_evaluated run in order, each on its feed
RunNext ==
    /\ pc = "execute"
    /\ UNCHANGED <<worker_vars, sched_vars, lib_vars, ctl_vars>>
    /\ Len(next_generation) < Len(to_be_evaluated)
    /\ LET next_tag == to_be_evaluated[Len(next_generation) + 1][1]
           next_feed == to_be_evaluated[Len(next_generation) + 1][2]
       IN  \E result \in procedure[next_tag] :
              /\ next_generation' = Append(next_generation, <<next_tag, result>>)
              /\ log' = Append(log, Execution(next_tag, next_feed, result, epoch_count + 1))
    /\ UNCHANGED <<graph, conditional_edges, procedure, warned, max_epochs, epoch_count, pc,
                   current_generation, current_generation_copy, unsatisfied, resolved,
                   to_be_evaluated, tag_index, children_left, raised>>

\* line 216 with the ceiling compared one epoch late
LoopEndsLate(generation, count) == Len(generation) = 0 \/ PyInt(count - 1) = max_epochs

\* line 216
LoopEnds(generation, count) == Len(generation) = 0 \/ PyInt(count) = max_epochs

\* line 212 without the update
NextGenerationDropped(generation, executed) == generation

\* line 212: current_generation.update(...)
NextGeneration(generation, executed) == ODUpdate(generation, executed)

\* line 212 to 217
EndEpoch ==
    /\ pc = "execute"
    /\ UNCHANGED <<worker_vars, sched_vars, lib_vars, ctl_vars>>
    /\ Len(next_generation) = Len(to_be_evaluated)
    /\ current_generation' = NextGeneration(current_generation, next_generation)
    /\ epoch_count' = epoch_count + 1
    /\ pc' = IF LoopEnds(current_generation', epoch_count') THEN "done" ELSE "loop"
    /\ UNCHANGED <<graph, conditional_edges, procedure, warned, max_epochs, current_generation_copy,
                   unsatisfied, resolved, to_be_evaluated, next_generation, tag_index,
                   children_left, raised, log>>

Tags == {"A", "B", "C", "D", "E"} \cup IntTags

NextGateNetwork ==
    \/ \E starting_tag \in Tags : Run(starting_tag, PyNone)
    \/ BeginEpoch
    \/ ResolveSink
    \/ \E child_tag \in Tags : ProcessChild(child_tag)
    \/ RunNext
    \/ EndEpoch

InitRun == InitGateNetwork /\ InitWorker /\ InitSchedulerOff /\ InitLibraryOff /\ InitControllerOff

SpecGateNetwork == InitRun /\ [][NextGateNetwork]_vars

\* run is one thread: a step that can be taken is taken
SpecGateNetworkLive == SpecGateNetwork /\ WF_vars(NextGateNetwork)

(***************************************************************************)
(* The worker (worker.py): the platform and routine registries and the     *)
(* receive handler.                                                        *)
(***************************************************************************)
\* a platform object holding the components d
Platform(d) == [k |-> "platform", v |-> d]

\* platform_types, line 459 and 513 to 518: only the debug platform is registered
PlatformTypes == {"debug"}
\* component_types of the debug platform and what each constructor requires
ComponentTypes == {"output", "pwm", "servo"}
RequiredSetupArgs(type) ==
    CASE type = "output" -> {"pin_id"}
      [] type = "pwm" -> {"pin_id", "frequency"}
      [] type = "servo" -> {"output_pin"}

\* the operations of a component, and whether it has read()
Operations(type) ==
    CASE type = "output" -> {"set_high", "set_low", "toggle", "read", "cleanup"}
      [] type = "pwm" -> {"start", "stop", "change_frequency", "change_duty_cycle", "cleanup"}
      [] type = "servo" -> {"set_angle", "get_angle", "start", "stop", "read", "cleanup"}
HasRead(component) == component.type \in {"output", "servo"}

\* a new component: an output pin starts low (line 468), a servo inactive
\* (line 335); state is the pin's _state or the servo's is_active
Component(type) == [type |-> type, state |-> FALSE]

\* the outcome of a handler: the worker's registries after it, what it returned
\* ("None" when nothing) and the exception it raised ("" when none)
Returned(w, result) == [w |-> w, result |-> result, exc |-> "", msg |-> <<>>]
Failed(w, exc, msg) == [w |-> w, result |-> PyNone, exc |-> exc, msg |-> msg]

\* line 66 to 71
WorkerAddPlatform(w, kwargs) ==
    IF kwargs.type \notin PlatformTypes THEN Failed(w, "KeyError", <<kwargs.type>>)
    ELSE Returned([w EXCEPT !.platform = Platform(<<>>)], PyNone)

\* line 73, 74
WorkerRemovePlatform(w, kwargs) == Returned([w EXCEPT !.platform = PyNone], PyNone)

\* line 83 without the test of line 80
WorkerAddRoutineUnchecked(w, kwargs) ==
    Returned([w EXCEPT !.routines =
                  ODSet(@, kwargs.key, [executor |-> kwargs.executor,
                                        operation |-> kwargs.operation,
                                        interval |-> kwargs.interval])],
             PyNone)

\* line 76 to 83
WorkerAddRoutine(w, kwargs) ==
    IF w.platform = PyNone THEN Failed(w, "TypeError", <<"NoneType is not iterable">>)
    ELSE IF kwargs.executor \notin ODKeys(w.platform.v)
    THEN Failed(w, "RuntimeError", <<"component_not_found", kwargs.executor>>)
    ELSE Returned([w EXCEPT !.routines =
                       ODSet(@, kwargs.key, [executor |-> kwargs.executor,
                                             operation |-> kwargs.operation,
                                             interval |-> kwargs.interval])],
                  PyNone)

\* line 85 to 87
WorkerRemoveRoutine(w, kwargs) == Returned([w EXCEPT !.routines = ODPop(@, kwargs.key)], PyNone)

\* PlatformABC.remove_component, line 438 to 441
PlatformRemoveComponent(components, key) == ODPop(components, key)

\* PlatformABC.add_component, line 422 to 436: the component the key held is
\* removed before the new one is checked
WorkerAddComponent(w, kwargs) ==
    IF w.platform = PyNone THEN Failed(w, "AttributeError", <<"add_component">>)
    ELSE LET removed == [w EXCEPT !.platform =
                             Platform(PlatformRemoveComponent(w.platform.v, kwargs.key))]
         IN  IF kwargs.type \notin ComponentTypes
             THEN Failed(removed, "RuntimeError", <<"type_not_supported", kwargs.type>>)
             ELSE IF ~(RequiredSetupArgs(kwargs.type) \subseteq kwargs.setup)
             THEN Failed(removed, "RuntimeError", <<"setup_not_satisfied", kwargs.key>>)
             ELSE Returned([removed EXCEPT !.platform =
                                Platform(ODSet(removed.platform.v, kwargs.key,
                                               Component(kwargs.type)))],
                           PyNone)

\* line 93, 94
WorkerRemoveComponent(w, kwargs) ==
    IF w.platform = PyNone THEN Failed(w, "AttributeError", <<"remove_component">>)
    ELSE Returned([w EXCEPT !.platform = Platform(PlatformRemoveComponent(@.v, kwargs.key))],
                  PyNone)

\* what an operation does to the component (line 264 to 268, 351 to 358,
\* 474 to 480)
Operate(component, operation) ==
    CASE operation \in {"set_high", "start"} -> [component EXCEPT !.state = TRUE]
      [] operation \in {"set_low", "stop"} -> [component EXCEPT !.state = FALSE]
      [] operation = "toggle" -> [component EXCEPT !.state = ~@]
      [] OTHER -> component

\* ServoComponent.set_angle, line 342, 343: an inactive servo refuses
OperationRaises(component, operation) ==
    component.type = "servo" /\ operation = "set_angle" /\ ~component.state

\* line 96 to 102
WorkerExecuteComponent(w, kwargs) ==
    IF w.platform = PyNone THEN Failed(w, "TypeError", <<"NoneType is not iterable">>)
    ELSE IF kwargs.key \notin ODKeys(w.platform.v)
    THEN Failed(w, "RuntimeError", <<"component_not_found", kwargs.key>>)
    ELSE LET component == ODGet(w.platform.v, kwargs.key)
         IN  IF kwargs.operation \notin Operations(component.type)
             THEN Failed(w, "AttributeError", <<kwargs.operation>>)
             ELSE IF OperationRaises(component, kwargs.operation)
             THEN Failed(w, "RuntimeWarning", <<"servo_not_active">>)
             ELSE Returned([w EXCEPT !.platform =
                                Platform(ODSet(@.v, kwargs.key,
                                               Operate(component, kwargs.operation)))],
                           PyNone)

\* the keys of a dict, as list() gives them
KeyList(d) == [i \in DOMAIN d |-> d[i][1]]

\* line 104 to 107; selected = {} stands for None
WorkerGetObservations(w, kwargs) ==
    IF w.platform = PyNone THEN Failed(w, "AttributeError", <<"keys">>)
    ELSE LET to_read_from == IF kwargs.selected # {} THEN kwargs.selected
                             ELSE ODKeys(w.platform.v)
             read == {tag \in ODKeys(w.platform.v) :
                         HasRead(ODGet(w.platform.v, tag)) /\ tag \in to_read_from}
         IN  Returned(w, PyDict([tag \in read |-> PyBool(ODGet(w.platform.v, tag).state)]))

\* line 109, 110
WorkerGetComponents(w, kwargs) ==
    IF w.platform = PyNone THEN Failed(w, "TypeError", <<"NoneType is not iterable">>)
    ELSE Returned(w, PyList(KeyList(w.platform.v)))

\* line 112, 113
WorkerGetRoutines(w, kwargs) == Returned(w, PyList(KeyList(w.routines)))

\* Worker.method_handlers, line 38 to 59
Methods == {"add", "remove", "execute", "get"}
\* ", ".join(self.method_handlers), line 160: the keys in insertion order
MethodList == <<"add", "remove", "execute", "get">>
Resources(method) ==
    CASE method = "add" -> {"component", "routine", "platform"}
      [] method = "remove" -> {"component", "routine", "platform"}
      [] method = "execute" -> {"component"}
      [] method = "get" -> {"observations", "components", "routines"}

Handle(w, method, resource, kwargs) ==
    CASE method = "add" /\ resource = "component" -> WorkerAddComponent(w, kwargs)
      [] method = "add" /\ resource = "routine" -> WorkerAddRoutine(w, kwargs)
      [] method = "add" /\ resource = "platform" -> WorkerAddPlatform(w, kwargs)
      [] method = "remove" /\ resource = "component" -> WorkerRemoveComponent(w, kwargs)
      [] method = "remove" /\ resource = "routine" -> WorkerRemoveRoutine(w, kwargs)
      [] method = "remove" /\ resource = "platform" -> WorkerRemovePlatform(w, kwargs)
      [] method = "execute" /\ resource = "component" -> WorkerExecuteComponent(w, kwargs)
      [] method = "get" /\ resource = "observations" -> WorkerGetObservations(w, kwargs)
      [] method = "get" /\ resource = "components" -> WorkerGetComponents(w, kwargs)
      [] method = "get" /\ resource = "routines" -> WorkerGetRoutines(w, kwargs)

\* one pass of the loop of _process_request_items, line 154 to 164: the
\* registries after the item, the response merged so far, the exception raised
ProcessRequestItem(w, item, so_far) ==
    IF item.method \notin Methods
    THEN Failed(w, "RuntimeError", <<"method_invalid", item.method>> \o MethodList)
    ELSE IF item.resource \notin Resources(item.method)
    THEN Failed(w, "KeyError", <<item.resource>>)
    ELSE LET done == Handle(w, item.method, item.resource, item.kwargs)
         IN  IF done.exc # "" THEN done
             ELSE Returned(done.w,
                           IF done.result # PyNone
                           THEN InnerMergeMap(so_far, item.method, item.resource :> done.result)
                           ELSE so_far)

\* the except clause of line 139 without the runtime classes
CaughtValueErrorOnly == {"ValueError"}

\* the except clause of line 139
CaughtErrors == {"RuntimeError", "RuntimeWarning", "ValueError"}

(***************************************************************************)
(* Request payloads.                                                        *)
(***************************************************************************)
Item(method, resource, kwargs) == [method |-> method, resource |-> resource, kwargs |-> kwargs]
NoKwargs == [none |-> TRUE]

\* an interval is written in milliseconds: 1000 is the float 1.0 of the request
RequestItems ==
    {Item("add", "platform", [type |-> "debug"]),
     Item("add", "platform", [type |-> "nope"]),
     Item("remove", "platform", NoKwargs),
     Item("add", "component", [key |-> "x", type |-> "output", setup |-> {"pin_id"}]),
     Item("add", "component", [key |-> "y", type |-> "servo", setup |-> {"output_pin"}]),
     Item("add", "component", [key |-> "x", type |-> "nope", setup |-> {}]),
     Item("add", "component", [key |-> "x", type |-> "output", setup |-> {}]),
     Item("remove", "component", [key |-> "x"]),
     Item("execute", "component", [key |-> "x", operation |-> "toggle"]),
     Item("execute", "component", [key |-> "y", operation |-> "set_angle"]),
     Item("execute", "component", [key |-> "y", operation |-> "start"]),
     Item("add", "routine", [key |-> "r", executor |-> "x", operation |-> "toggle",
                             interval |-> 1000]),
     Item("add", "routine", [key |-> "r", executor |-> "z", operation |-> "toggle",
                             interval |-> 1000]),
     Item("remove", "routine", [key |-> "r"]),
     Item("get", "components", NoKwargs),
     Item("get", "routines", NoKwargs),
     Item("get", "observations", [selected |-> {}]),
     Item("put", "component", NoKwargs),
     Item("execute", "routine", NoKwargs)}

\* the items that set the registries up and read them back
CoreItems ==
    {Item("add", "platform", [type |-> "debug"]),
     Item("add", "component", [key |-> "x", type |-> "output", setup |-> {"pin_id"}]),
     Item("remove", "platform", NoKwargs),
     Item("get", "components", NoKwargs)}

\* the lists of n items over an alphabet
RECURSIVE Lists(_, _)
Lists(alphabet, n) ==
    IF n = 0 THEN {<<>>}
    ELSE {<<item>> \o rest : item \in alphabet, rest \in Lists(alphabet, n - 1)}

\* the item lists a controller sends (ControllerABC.add_request_item appends, so
\* the list is in submission order): every list of up to two items, and the
\* longer lists of the core items
Batches == UNION {Lists(IF n <= 2 THEN RequestItems ELSE CoreItems, n) : n \in 0..MaxItems}

\* what arrives: the encoding of a request, of a mapping that lacks a field of
\* Request, or bytes that are no msgpack encoding at all
Payloads ==
    {[kind |-> "request", items |-> batch] : batch \in Batches}
        \cup {[kind |-> "missing_field", items |-> <<>>], [kind |-> "garbage", items |-> <<>>]}

\* decode_request, line 162, 174 to 192: the exception it raises, "" when none.
\* A field of Request that fails the type check has no class default, so the
\* getattr of line 192 raises AttributeError; what msgpack raises on bytes it
\* cannot decode is the library's choice
DecodeRequestRaises(payload) ==
    CASE payload.kind = "request" -> {""}
      [] payload.kind = "missing_field" -> {"AttributeError"}
      [] payload.kind = "garbage" -> {"ValueError", "OutOfData"}

\* line 129 with a feedback entry from the start
FeedbackToSendAlways(received, sent, error, feedback) ==
    ("received_time" :> PyInt(received)) @@ ("error" :> error) @@ ("sent_time" :> PyInt(sent))
        @@ ("feedback" :> IF feedback = <<>> THEN PyDict(EmptyMap) ELSE feedback[1])

\* the dict of line 129, 138, 142, 145 that encode_transaction is given
FeedbackToSend(received, sent, error, feedback) ==
    LET base == ("received_time" :> PyInt(received)) @@ ("error" :> error)
                    @@ ("sent_time" :> PyInt(sent))
    IN  IF feedback = <<>> THEN base ELSE ("feedback" :> feedback[1]) @@ base

\* line 142 with the class name alone
ErrorStringBare(exc, msg) == [k |-> "str", v |-> <<exc>>]

\* "{}: {}".format(e.__class__.__name__, str(e))
ErrorString(exc, msg) == [k |-> "str", v |-> <<exc>> \o msg]

\* decode_response, line 166, 184: the Response the controller builds from the
\* mapping, absent fields taking the defaults of line 75, 76
DecodeResponse(mapping) ==
    [received_time |-> mapping["received_time"],
     sent_time |-> mapping["sent_time"],
     feedback |-> IF "feedback" \in DOMAIN mapping THEN mapping["feedback"] ELSE PyNone,
     error |-> IF "error" \in DOMAIN mapping THEN mapping["error"] ELSE PyNone]

\* what the except clause of line 139 does with the exception exc
Caught(exc) == exc \in CaughtErrors

\* line 139 to 150: the handler ends; a caught exception becomes the error of
\* the response, any other leaves the handler
Finish(received, exc, msg, feedback) ==
    \E sent_time \in {clock, clock + 1} :
        /\ IF exc = ""
           THEN /\ response' = <<FeedbackToSend(received, sent_time, PyNone, <<feedback>>)>>
                /\ propagated' = ""
           ELSE IF Caught(exc)
           THEN /\ response' = <<FeedbackToSend(received, sent_time,
                                                ErrorString(exc, msg), <<>>)>>
                /\ propagated' = ""
           ELSE /\ response' = <<>>
                /\ propagated' = exc
        /\ clock' = sent_time
        /\ worker_pc' = "idle"
        /\ items_left' = 0
        /\ merged' = EmptyMap
        /\ items' = <<>>
        /\ start' = <<>>

\* the registries the bound handlers of line 162 work on: the worker's own
Registries == [platform |-> platform, routines |-> routines]

\* line 154 taking the list from its end
LastItemFirst == items[items_left]

\* line 154: the for loop takes the items from the front of the list
CurrentItem == items[Len(items) - items_left + 1]

\* _on_receive, line 127 to 138: a payload arrives and is decoded
Receive(payload) ==
    /\ worker_pc = "idle"
    /\ clock < MaxClock
    /\ received_time' = clock
    /\ \E decode_exc \in DecodeRequestRaises(payload) :
          IF decode_exc # ""
          THEN Finish(clock, decode_exc, <<"decode">>, PyNone)
          ELSE /\ worker_pc' = "items"
               /\ items_left' = Len(payload.items)
               /\ items' = payload.items
               /\ start' = <<Registries>>
               /\ merged' = EmptyMap
               /\ response' = <<>>
               /\ propagated' = ""
               /\ UNCHANGED clock
    /\ UNCHANGED <<platform, routines>>
    /\ UNCHANGED <<gn_vars, sched_vars, lib_vars, ctl_vars>>

\* line 154 to 164 with the registries put back when the item raises
ProcessItemRolledBack ==
    /\ worker_pc = "items"
    /\ items_left > 0
    /\ LET done == ProcessRequestItem(Registries, CurrentItem, merged)
       IN  IF done.exc # ""
           THEN /\ platform' = start[1].platform
                /\ routines' = start[1].routines
                /\ Finish(received_time, done.exc, done.msg, PyNone)
           ELSE /\ platform' = done.w.platform
                /\ routines' = done.w.routines
                /\ merged' = done.result
                /\ items_left' = items_left - 1
                /\ UNCHANGED <<clock, worker_pc, items, start, response, propagated>>
    /\ UNCHANGED received_time
    /\ UNCHANGED <<gn_vars, sched_vars, lib_vars, ctl_vars>>

\* line 154 to 164: the next item of the batch is handled
ProcessItem ==
    /\ worker_pc = "items"
    /\ items_left > 0
    /\ LET done == ProcessRequestItem(Registries, CurrentItem, merged)
       IN  /\ platform' = done.w.platform
           /\ routines' = done.w.routines
           /\ IF done.exc # ""
              THEN Finish(received_time, done.exc, done.msg, PyNone)
              ELSE /\ merged' = done.result
                   /\ items_left' = items_left - 1
                   /\ UNCHANGED <<clock, worker_pc, items, start, response, propagated>>
    /\ UNCHANGED received_time
    /\ UNCHANGED <<gn_vars, sched_vars, lib_vars, ctl_vars>>

\* line 165, 138, 145 to 150: the batch is done and the response is returned
Respond ==
    /\ worker_pc = "items"
    /\ items_left = 0
    /\ Finish(received_time, "", <<>>, PyDict(merged))
    /\ UNCHANGED <<platform, routines, received_time>>
    /\ UNCHANGED <<gn_vars, sched_vars, lib_vars, ctl_vars>>

NextWorker ==
    \/ \E payload \in Payloads : Receive(payload)
    \/ ProcessItem
    \/ Respond

\* a network that is never run, beside the worker
InitIdleNetwork ==
    /\ graph = Single.graph
    /\ conditional_edges = Single.conditional_edges
    /\ procedure = Single.procedure
    /\ max_epochs = PyNone
    /\ epoch_count = 0
    /\ pc = "unused"
    /\ current_generation = <<>>
    /\ current_generation_copy = <<>>
    /\ unsatisfied = EmptyMap
    /\ resolved = EmptyMap
    /\ to_be_evaluated = <<>>
    /\ next_generation = <<>>
    /\ tag_index = 0
    /\ children_left = {}
    /\ raised = ""
    /\ log = <<>>
    /\ warned = <<>>

InitServe == InitIdleNetwork /\ InitWorker /\ InitSchedulerOff /\ InitLibraryOff /\ InitControllerOff

SpecWorker == InitServe /\ [][NextWorker]_vars

(***************************************************************************)
(* The routines thread (Worker._run_routines).  Time is counted in whole   *)
(* milliseconds since start_time; one pass of the while loop is made at    *)
(* each millisecond the thread is awake for.                               *)
(***************************************************************************)
\* the longest the thread is followed, in milliseconds
Horizon == 3000
\* how long it is followed beside the request path
Lifetime == 3
\* items the request path handles beside the thread
MaxMutations == 2

\* line 187 cutting the fraction off
Truncated(e) == e \div 1000

\* round(x) of line 187 for x = e / 1000 seconds: the nearest whole number, and
\* of two equally near ones the even one
PyRound(e) ==
    LET q == e \div 1000
        r == e % 1000
    IN  IF r < 500 THEN q
        ELSE IF r > 500 THEN q + 1
        ELSE IF q % 2 = 0 THEN q ELSE q + 1

\* line 187
IntervalMod(elapsed, time_interval) == PyRound(elapsed % time_interval)

Routine(executor, operation, interval) ==
    [executor |-> executor, operation |-> operation, interval |-> interval]

\* a dict iterator's next(): _routines has another size than when the loop began
SizeChanged == Len(routines) # iter_size

\* an exception leaves _run_routines: nothing catches it and the thread ends
ThreadEnds(exception) ==
    /\ sched_pc' = "dead"
    /\ sched_raised' = exception
    /\ UNCHANGED <<now, iter_size, iter_pos, fired>>

\* line 198, 173, 177: the thread wakes and begins the loop of line 177
Wake ==
    /\ sched_pc = "sleep"
    /\ now < horizon
    /\ sched_pc' = "scan"
    /\ iter_size' = Len(routines)
    /\ iter_pos' = 1
    /\ UNCHANGED <<now, horizon, to_update, sched_raised, fired, mutations>>
    /\ UNCHANGED <<gn_vars, worker_vars, lib_vars, ctl_vars>>

\* line 177 to 179: one turn of the loop; the key it yields is a key of
\* _routines, so nothing is deleted.  When it is exhausted the loop of line 181
\* begins
Scan ==
    /\ sched_pc = "scan"
    /\ IF SizeChanged
       THEN ThreadEnds("RuntimeError")
       ELSE /\ IF iter_pos > iter_size
               THEN /\ sched_pc' = "visit"
                    /\ iter_size' = Len(routines)
                    /\ iter_pos' = 1
               ELSE /\ iter_pos' = iter_pos + 1
                    /\ UNCHANGED <<sched_pc, iter_size>>
            /\ UNCHANGED <<now, sched_raised, fired>>
    /\ UNCHANGED <<horizon, to_update, mutations>>
    /\ UNCHANGED <<gn_vars, worker_vars, lib_vars, ctl_vars>>

\* line 181 to 198: one turn of the loop, for the routine the iterator yields;
\* when it is exhausted the thread sleeps to the next millisecond
Visit ==
    /\ sched_pc = "visit"
    /\ IF SizeChanged
       THEN ThreadEnds("RuntimeError") /\ UNCHANGED <<to_update, platform>>
       ELSE IF iter_pos > iter_size
       THEN /\ sched_pc' = "sleep"
            /\ now' = now + 1
            /\ UNCHANGED <<to_update, platform, iter_size, iter_pos, sched_raised, fired>>
       ELSE LET key == routines[iter_pos][1]
                value == routines[iter_pos][2]
                flag == IF key \in DOMAIN to_update THEN to_update[key] ELSE FALSE
                interval_mod == IntervalMod(now, value.interval)
            IN  IF ~flag /\ interval_mod = 0
                THEN LET done == WorkerExecuteComponent(
                                     Registries,
                                     [key |-> value.executor, operation |-> value.operation])
                     IN  IF done.exc # ""
                         THEN /\ ThreadEnds(done.exc)
                              /\ to_update' = MapSet(to_update, key, FALSE)
                              /\ UNCHANGED platform
                         ELSE /\ platform' = done.w.platform
                              /\ to_update' = MapSet(to_update, key, TRUE)
                              /\ fired' = Append(fired, [key |-> key, at |-> now])
                              /\ iter_pos' = iter_pos + 1
                              /\ UNCHANGED <<sched_pc, now, iter_size, sched_raised>>
                ELSE /\ to_update' = MapSet(to_update, key,
                                            IF interval_mod # 0 THEN FALSE ELSE flag)
                     /\ iter_pos' = iter_pos + 1
                     /\ UNCHANGED <<platform, sched_pc, now, iter_size, sched_raised, fired>>
    /\ UNCHANGED <<horizon, mutations>>
    /\ UNCHANGED <<gn_vars, lib_vars, ctl_vars>>
    /\ UNCHANGED <<routines, clock, worker_pc, received_time, items_left, merged, items, start,
                   response, propagated>>

NextScheduler == Wake \/ Scan \/ Visit

\* the intervals routines are registered with, in milliseconds
Intervals == {250, 500, 600, 1000, 2000}

\* line 117, 168 to 171: the thread has just been started on a worker whose
\* platform holds the output pin x
InitScheduler ==
    /\ sched_pc = "sleep"
    /\ now = 0
    /\ to_update = EmptyMap
    /\ iter_size = 0
    /\ iter_pos = 0
    /\ sched_raised = ""
    /\ fired = <<>>
    /\ mutations = <<>>
    /\ platform = Platform(<< <<"x", Component("output")>> >>)
    /\ clock = 0
    /\ worker_pc = "idle"
    /\ received_time = 0
    /\ items_left = 0
    /\ merged = EmptyMap
    /\ items = <<>>
    /\ start = <<>>
    /\ response = <<>>
    /\ propagated = ""

\* one routine, or the two routines r and s, registered before serve
InitSchedule ==
    /\ InitIdleNetwork
    /\ InitScheduler
    /\ InitLibraryOff /\ InitControllerOff
    /\ horizon = Horizon
    /\ \/ \E interval \in Intervals :
             routines = << <<"r", Routine("x", "toggle", interval)>> >>
       \/ routines = << <<"r", Routine("x", "toggle", 1000)>>,
                        <<"s", Routine("x", "toggle", 2000)>> >>

SpecSchedule == InitSchedule /\ [][NextScheduler]_vars

\* the items that change a registry the thread reads
MutatingItems ==
    {Item("remove", "routine", [key |-> "r"]),
     Item("add", "routine", [key |-> "t", executor |-> "x", operation |-> "toggle",
                             interval |-> 1000]),
     Item("remove", "component", [key |-> "x"]),
     Item("remove", "platform", NoKwargs),
     Item("add", "platform", [type |-> "debug"])}

\* line 162 on the request path while the thread runs: the handler of the item
\* changes the registry it is about
Mutate(item) ==
    /\ sched_pc \in {"sleep", "scan", "visit"}
    /\ Len(mutations) < MaxMutations
    /\ LET done == Handle(Registries, item.method, item.resource, item.kwargs)
       IN  /\ done.exc = ""
           /\ platform' = done.w.platform
           /\ routines' = done.w.routines
    /\ mutations' = Append(mutations, [item |-> item, fires |-> Len(fired)])
    /\ UNCHANGED <<sched_pc, now, horizon, to_update, iter_size, iter_pos, sched_raised, fired>>
    /\ UNCHANGED <<gn_vars, lib_vars, ctl_vars>>
    /\ UNCHANGED <<clock, worker_pc, received_time, items_left, merged, items, start, response,
                   propagated>>

InitLifetime ==
    /\ InitIdleNetwork
    /\ InitScheduler
    /\ InitLibraryOff /\ InitControllerOff
    /\ horizon = Lifetime
    /\ routines = << <<"r", Routine("x", "toggle", 1000)>>,
                     <<"s", Routine("x", "toggle", 2000)>> >>

NextLifetime ==
    \/ NextScheduler
    \/ \E item \in MutatingItems : Mutate(item)

SpecLifetime == InitLifetime /\ [][NextLifetime]_vars

(***************************************************************************)
(* Transactions (connection.py): encode_transaction, decode_request and    *)
(* decode_response.  msgpack has one array type: dumps writes a list and a *)
(* tuple as the same array, and loads reads every array as a list.         *)
(***************************************************************************)
PyFloat(n) == [k |-> "float", v |-> n]
PyStr(s) == [k |-> "str", v |-> s]
PyTuple(s) == [k |-> "tuple", v |-> s]

\* msgpack.dumps: the msgpack value of a Python value
RECURSIVE Dumps(_)
Dumps(value) ==
    CASE value.k \in {"list", "tuple"} ->
             [k |-> "array", v |-> [i \in DOMAIN value.v |-> Dumps(value.v[i])]]
      [] value.k = "dict" ->
             [k |-> "map", v |-> [key \in DOMAIN value.v |-> Dumps(value.v[key])]]
      [] value.k = "none" -> [k |-> "nil", v |-> 0]
      [] OTHER -> value

\* msgpack.loads that hands an array back as the tuple it may have been
RECURSIVE LoadsAsTuple(_)
LoadsAsTuple(packed) ==
    CASE packed.k = "array" ->
             PyTuple([i \in DOMAIN packed.v |-> LoadsAsTuple(packed.v[i])])
      [] packed.k = "map" ->
             PyDict([key \in DOMAIN packed.v |-> LoadsAsTuple(packed.v[key])])
      [] packed.k = "nil" -> PyNone
      [] OTHER -> packed

\* msgpack.loads: the Python value of a msgpack value
RECURSIVE Loads(_)
Loads(packed) ==
    CASE packed.k = "array" -> PyList([i \in DOMAIN packed.v |-> Loads(packed.v[i])])
      [] packed.k = "map" -> PyDict([key \in DOMAIN packed.v |-> Loads(packed.v[key])])
      [] packed.k = "nil" -> PyNone
      [] OTHER -> packed

\* encode_transaction, line 158, 159
EncodeTransaction(mapping) == Dumps(PyDict(mapping))

\* the annotations of Request (line 67, 68) and Response (line 73 to 76), in
\* the order they are declared
Annotations(datacls) ==
    IF datacls = "Request"
    THEN << <<"sent_time", "float">>, <<"items", "list">> >>
    ELSE << <<"received_time", "float">>, <<"sent_time", "float">>,
            <<"feedback", "dict">>, <<"error", "str">> >>

\* getattr(datacls, field): a field declared with a default is an attribute of
\* the class, a field declared without one is not: <<>> stands for the
\* AttributeError
ClassAttribute(datacls, field) ==
    IF datacls = "Response" /\ field \in {"feedback", "error"} THEN <<PyNone>> ELSE <<>>

\* mapping.get(field, None)
MappingGet(mapping, field) == IF field \in DOMAIN mapping THEN mapping[field] ELSE PyNone

\* isinstance(value, field_type)
IsInstance(value, field_type) == value.k = field_type

\* the condition of line 192 for one field: the type test, and only when it
\* fails the getattr
FieldUnsatisfied(datacls, mapping, field) ==
    IF IsInstance(MappingGet(mapping, field[1]), field[2])
    THEN [exc |-> "", unsatisfied |-> FALSE]
    ELSE IF ClassAttribute(datacls, field[1]) = <<>>
         THEN [exc |-> "AttributeError", unsatisfied |-> FALSE]
         ELSE [exc |-> "", unsatisfied |-> ClassAttribute(datacls, field[1])[1] # PyNone]

\* _get_unsatisfied_fields, line 187 to 192: the comprehension goes through the
\* annotations in order and ends at the first exception
RECURSIVE GetUnsatisfiedFields(_, _, _, _)
GetUnsatisfiedFields(datacls, mapping, fields, found) ==
    IF fields = <<>> THEN [exc |-> "", msg |-> {}, fields |-> found]
    ELSE LET test == FieldUnsatisfied(datacls, mapping, Head(fields))
         IN  IF test.exc # ""
             THEN [exc |-> test.exc, msg |-> {Head(fields)[1]}, fields |-> {}]
             ELSE GetUnsatisfiedFields(datacls, mapping, Tail(fields),
                                       IF test.unsatisfied
                                       THEN found \cup {Head(fields)[1]} ELSE found)

FieldNames(datacls) == {Annotations(datacls)[i][1] : i \in DOMAIN Annotations(datacls)}

\* Request(**decoded)
MakeRequest(mapping) == [sent_time |-> mapping["sent_time"], items |-> mapping["items"]]

\* _decode_transaction, line 174 to 184: what it raises ("" when nothing),
\* the fields the message of the exception names, and the record it returns
DecodeTransaction(datacls, packed) ==
    LET mapping == Loads(packed).v
        checked == GetUnsatisfiedFields(datacls, mapping, Annotations(datacls), {})
    IN  CASE checked.exc # "" ->
                 [exc |-> checked.exc, msg |-> checked.msg, value |-> PyNone]
          [] checked.fields # {} ->
                 [exc |-> "ValueError", msg |-> checked.fields, value |-> PyNone]
          [] ~(DOMAIN mapping \subseteq FieldNames(datacls)) ->
                 [exc |-> "TypeError", msg |-> DOMAIN mapping \ FieldNames(datacls),
                  value |-> PyNone]
          [] OTHER ->
                 [exc |-> "", msg |-> {},
                  value |-> IF datacls = "Request" THEN MakeRequest(mapping)
                            ELSE DecodeResponse(mapping)]

\* a mapping of the fields that are given: <<>> leaves the field out
Field(name, given) == IF given = <<>> THEN EmptyMap ELSE name :> given[1]

\* request items as the controller appends them (controller.py, line 142: a
\* tuple), and as lists
TupleItem(method, resource) ==
    PyTuple(<<PyStr(method), PyStr(resource), PyDict([key |-> PyStr("x")])>>)
ListItem(method, resource) ==
    PyList(<<PyStr(method), PyStr(resource), PyDict([key |-> PyStr("x")])>>)

ItemLists ==
    {PyList(<<>>),
     PyList(<<TupleItem("add", "component")>>),
     PyList(<<TupleItem("add", "component"), TupleItem("get", "components")>>),
     PyList(<<TupleItem("get", "components"), TupleItem("add", "component")>>),
     PyList(<<ListItem("add", "component"), ListItem("get", "components")>>),
     PyList(<<ListItem("remove", "component")>>)}

\* what a sender may hand to encode_transaction as a request
RequestMappings ==
    {Field("sent_time", sent) @@ Field("items", its) :
        sent \in {<<>>, <<PyFloat(1)>>, <<PyInt(1)>>, <<PyStr("now")>>},
        its \in {<<>>, <<PyDict(EmptyMap)>>, <<PyTuple(<<>>)>>, <<PyNone>>}
                   \cup {<<l>> : l \in ItemLists}}

Feedbacks ==
    {PyDict([get |-> PyDict([components |-> PyList(<<PyStr("x"), PyStr("y")>>)])]),
     PyDict([get |-> PyDict([observations |-> PyDict([x |-> PyBool(TRUE)])])]),
     PyDict(EmptyMap)}

\* what a sender may hand to encode_transaction as a response
ResponseMappings ==
    {Field("received_time", received) @@ Field("sent_time", sent)
            @@ Field("feedback", feedback) @@ Field("error", error) :
        received \in {<<>>, <<PyFloat(1)>>, <<PyInt(1)>>},
        sent \in {<<>>, <<PyFloat(2)>>, <<PyNone>>},
        feedback \in {<<>>, <<PyNone>>, <<PyList(<<>>)>>} \cup {<<f>> : f \in Feedbacks},
        error \in {<<>>, <<PyNone>>, <<PyStr("RuntimeError")>>, <<PyInt(1)>>}}

\* encode_transaction is called on a mapping and the bytes are sent
Encode(mapping) ==
    /\ to_encode' = <<mapping>>
    /\ to_decode' = <<EncodeTransaction(mapping)>>
    /\ decoded' = <<>>
    /\ UNCHANGED <<dgraph, call, outcome>>
    /\ UNCHANGED <<gn_vars, worker_vars, sched_vars, ctl_vars>>

\* decode_request, line 162, or decode_response, line 166, is called on the
\* bytes that arrived
Decode(datacls) ==
    /\ to_decode # <<>>
    /\ decoded = <<>>
    /\ decoded' = <<[datacls |-> datacls] @@ DecodeTransaction(datacls, to_decode[1])>>
    /\ UNCHANGED <<dgraph, call, outcome, to_encode, to_decode>>
    /\ UNCHANGED <<gn_vars, worker_vars, sched_vars, ctl_vars>>

DecodeRequest == Decode("Request")

DecodeResponseBytes == Decode("Response")

NextTransaction ==
    \/ \E mapping \in RequestMappings \cup ResponseMappings : Encode(mapping)
    \/ DecodeRequest
    \/ DecodeResponseBytes

InitTransaction == InitIdleNetwork /\ InitWorker /\ InitSchedulerOff /\ InitLibraryOff /\ InitControllerOff

SpecTransaction == InitTransaction /\ [][NextTransaction]_vars

(***************************************************************************)
(* The directed graph (_graph.py): a dict from a key to the set of its      *)
(* successors.  A container handed to add_node is taken to be a set of its  *)
(* own, shared with no other node.                                          *)
(***************************************************************************)
Keys == {"a", "b", "c"}

\* frames of _get_paths_util followed before the recursion is given up as
\* RecursionError.  A path over the keys that ends by itself has at most
\* Cardinality(Keys) + 1 nodes, so a deeper recursion repeats a node that is
\* not its start and never ends
RecursionLimit == 5

Went(g) == [graph |-> g, exc |-> ""]
Threw(g, exc) == [graph |-> g, exc |-> exc]

\* add_node, line 29, 30; container = <<>> stands for None
GraphAddNode(g, key, container) ==
    Went(MapSet(g, key, IF container = <<>> THEN {} ELSE container[1]))

\* remove_node, line 33 to 39
GraphRemoveNode(g, key) ==
    IF key \in DOMAIN g
    THEN Went([node_key \in DOMAIN g \ {key} |-> g[node_key] \ {key}])
    ELSE Went(g)

\* add_edge that adds the edge before it tests for a self-loop
GraphAddEdgeLateTest(g, from_key, to_key) ==
    IF from_key \notin DOMAIN g THEN Threw(g, "KeyError")
    ELSE IF from_key = to_key
         THEN Threw([g EXCEPT ![from_key] = @ \cup {to_key}], "ValueError")
         ELSE Went([g EXCEPT ![from_key] = @ \cup {to_key}])

\* add_edge, line 42 to 45
GraphAddEdge(g, from_key, to_key) ==
    IF from_key = to_key THEN Threw(g, "ValueError")
    ELSE IF from_key \notin DOMAIN g THEN Threw(g, "KeyError")
         ELSE Went([g EXCEPT ![from_key] = @ \cup {to_key}])

\* add_edges_from_iterable, line 48 to 50: the edges before the one that
\* raises stay added
RECURSIVE GraphAddEdgesFromIterable(_, _)
GraphAddEdgesFromIterable(g, iterable) ==
    IF iterable = <<>> THEN Went(g)
    ELSE LET added == GraphAddEdge(g, Head(iterable)[1], Head(iterable)[2])
         IN  IF added.exc # "" THEN added
             ELSE GraphAddEdgesFromIterable(added.graph, Tail(iterable))

\* remove_edge, line 53, 54: graph[from_key] and set.remove raise KeyError
GraphRemoveEdge(g, from_key, to_key) ==
    IF from_key \notin DOMAIN g \/ to_key \notin g[from_key] THEN Threw(g, "KeyError")
    ELSE Went([g EXCEPT ![from_key] = @ \ {to_key}])

\* merge, line 125 to 132: graph.update(to_merge), then the new edges;
\* new_edges = <<>> stands for None as well as for no edges
GraphMerge(g, to_merge, new_edges) ==
    GraphAddEdgesFromIterable(
        [key \in DOMAIN g \cup DOMAIN to_merge |->
            IF key \in DOMAIN to_merge THEN to_merge[key] ELSE g[key]],
        new_edges)

\* what the loop of line 144 to 147 gathers from the calls it made on the
\* out-neighbours: the paths they appended, the paths they returned, and the
\* exceptions they can end with
Gathered(calls) ==
    [returned |-> <<>>,
     paths |-> UNION {made.paths \cup {made.returned[i] : i \in DOMAIN made.returned} :
                      made \in calls},
     excs |-> UNION {made.excs : made \in calls}]

\* _get_paths_util, line 135 to 147; start_key = <<>> stands for None.
\* returned is what the call returns (<<>> for None), paths what it appended
\* to paths, excs the exceptions the call can end with: the order in which the
\* set of out-neighbours is gone through decides which is met first
RECURSIVE GetPathsUtil(_, _, _, _, _)
GetPathsUtil(g, key, prepended, start_key, depth) ==
    IF depth > RecursionLimit
    THEN [returned |-> <<>>, paths |-> {}, excs |-> {"RecursionError"}]
    ELSE IF key \notin DOMAIN g
    THEN [returned |-> <<>>, paths |-> {}, excs |-> {"KeyError"}]
    ELSE IF g[key] = {} \/ <<key>> = start_key
    THEN [returned |-> <<Append(prepended, key)>>, paths |-> {}, excs |-> {}]
    ELSE Gathered({GetPathsUtil(g, child, Append(prepended, key),
                                IF start_key = <<>> THEN <<key>> ELSE start_key, depth + 1) :
                   child \in g[key]})

\* get_complete_paths, line 92 to 95: what the call of line 94 returns is
\* dropped.  The paths are kept as a set, their order being that of the sets
\* gone through
GetCompletePaths(g, key) ==
    [GetPathsUtil(g, key, <<>>, <<>>, 1) EXCEPT !.returned = <<>>]

\* get_all_complete_paths that starts from one key only
GetCompletePathsOfOne(g) ==
    IF DOMAIN g = {} THEN Gathered({})
    ELSE Gathered({GetCompletePaths(g, CHOOSE key \in DOMAIN g : TRUE)})

\* get_all_complete_paths, line 98 to 102
GetAllCompletePaths(g) == Gathered({GetCompletePaths(g, key) : key \in DOMAIN g})

\* the loop of line 62 to 65 over the paths enumerated
NoPathReturns(all) ==
    [value |-> PyBool(\A path \in all.paths : path[1] # path[Len(path)]),
     excs |-> all.excs]

\* is_acyclic, line 61 to 65
IsAcyclic(g) == NoPathReturns(GetAllCompletePaths(g))

\* the graphs merge is handed and the edge lists of add_edges_from_iterable
MergeGraphs == {("b" :> {"c"}) @@ ("c" :> {}), ("a" :> {"b"}), ("c" :> {"a"}) @@ ("a" :> {})}
EdgeLists == {<<>>, << <<"a", "b">>, <<"b", "a">> >>, << <<"a", "b">>, <<"c", "c">> >>}

\* a call that changes the graph: the graph it left and what it raised
Called(op, args, done) ==
    /\ call' = [op |-> op, args |-> args, graph |-> dgraph]
    /\ dgraph' = done.graph
    /\ outcome' = [exc |-> done.exc, value |-> PyNone]
    /\ UNCHANGED <<to_encode, to_decode, decoded>>
    /\ UNCHANGED <<gn_vars, worker_vars, sched_vars, ctl_vars>>

\* a call that asks about the graph: what it returned, or one of the
\* exceptions it can end with
Asked(op, args, answer) ==
    /\ call' = [op |-> op, args |-> args, graph |-> dgraph]
    /\ \/ answer.excs = {} /\ outcome' = [exc |-> "", value |-> answer.value]
       \/ \E exc \in answer.excs : outcome' = [exc |-> exc, value |-> PyNone]
    /\ UNCHANGED <<dgraph, to_encode, to_decode, decoded>>
    /\ UNCHANGED <<gn_vars, worker_vars, sched_vars, ctl_vars>>

\* the containers add_node is handed: None, or a set of at most one key
Containers == {<<>>} \cup {<<c>> : c \in {d \in SUBSET Keys : Cardinality(d) <= 1}}

AddNodeCall ==
    \E key \in Keys, container \in Containers :
        Called("add_node", <<key, container>>, GraphAddNode(dgraph, key, container))

RemoveNodeCall ==
    \E key \in Keys : Called("remove_node", <<key>>, GraphRemoveNode(dgraph, key))

AddEdgeCall ==
    \E from_key \in Keys, to_key \in Keys :
        Called("add_edge", <<from_key, to_key>>, GraphAddEdge(dgraph, from_key, to_key))

AddEdgesCall ==
    \E iterable \in EdgeLists :
        Called("add_edges_from_iterable", <<iterable>>,
               GraphAddEdgesFromIterable(dgraph, iterable))

RemoveEdgeCall ==
    \E from_key \in Keys, to_key \in Keys :
        Called("remove_edge", <<from_key, to_key>>, GraphRemoveEdge(dgraph, from_key, to_key))

MergeCall ==
    \E to_merge \in MergeGraphs, new_edges \in EdgeLists :
        Called("merge", <<to_merge, new_edges>>, GraphMerge(dgraph, to_merge, new_edges))

IsAcyclicCall == Asked("is_acyclic", <<>>, IsAcyclic(dgraph))

PathsAnswer(util) == [value |-> util.paths, excs |-> util.excs]

GetCompletePathsCall ==
    \E key \in DOMAIN dgraph :
        Asked("get_complete_paths", <<key>>, PathsAnswer(GetCompletePaths(dgraph, key)))

NextGraph ==
    \/ AddNodeCall
    \/ RemoveNodeCall
    \/ AddEdgeCall
    \/ AddEdgesCall
    \/ RemoveEdgeCall
    \/ MergeCall
    \/ IsAcyclicCall
    \/ GetCompletePathsCall

\* the empty graph
InitGraph == InitIdleNetwork /\ InitWorker /\ InitSchedulerOff /\ InitLibraryOff /\ InitControllerOff

SpecGraph == InitGraph /\ [][NextGraph]_vars

(***************************************************************************)
(* The epoch ceiling (GateNetwork.__init__, GateNetwork.set_max_epochs).    *)
(***************************************************************************)
\* set_max_epochs that assigns the ceiling before it tests it
SetMaxEpochsLateTest(ceiling, n) ==
    [max_epochs |-> PyInt(n), exc |-> IF n < 1 THEN "ValueError" ELSE ""]

\* set_max_epochs, line 85 to 88: the ceiling it leaves and what it raised
SetMaxEpochs(ceiling, n) ==
    IF n < 1
    THEN [max_epochs |-> ceiling, exc |-> "ValueError"]
    ELSE [max_epochs |-> PyInt(n), exc |-> ""]

\* the values handed to max_epochs and to set_max_epochs
SmallestCeiling == 0 - 1
CeilingsGiven == SmallestCeiling..MaxCeiling

\* the networks __init__ can build: gates and unconditional edges
Buildable == {n \in Networks : n.conditional_edges = EmptyNetwork.conditional_edges}

\* __init__, line 56 to 73: _max_epochs is None, then set_max_epochs when
\* max_epochs is given, then the gates and the edges
GateNetworkInit(given, n) ==
    LET first == IF given = PyNone THEN [max_epochs |-> PyNone, exc |-> ""]
                 ELSE SetMaxEpochs(PyNone, given.v)
    IN  [max_epochs |-> first.max_epochs, exc |-> first.exc,
         graph |-> IF first.exc = "" THEN n.graph ELSE EmptyMap]

\* what a call of this section records: the network and the ceiling it found
Configured(op, args, exc) ==
    /\ call' = [op |-> op, args |-> args, graph |-> graph, max_epochs |-> max_epochs, pc |-> pc]
    /\ outcome' = [exc |-> exc, value |-> PyNone]
    /\ UNCHANGED <<dgraph, to_encode, to_decode, decoded>>
    /\ UNCHANGED <<worker_vars, sched_vars, ctl_vars>>
    /\ UNCHANGED <<current_generation, current_generation_copy, unsatisfied, resolved,
                   to_be_evaluated, next_generation, tag_index, children_left, raised, log,
                   warned>>

\* network = GateNetwork(max_epochs, gates, edges): when __init__ raises
\* nothing is bound and the network held before stays
Construct ==
    \E given \in {PyNone} \cup {PyInt(n) : n \in CeilingsGiven}, n \in Buildable :
        LET built == GateNetworkInit(given, n) IN
        /\ Configured("GateNetwork", <<given>>, built.exc)
        /\ IF built.exc = ""
           THEN /\ graph' = built.graph
                /\ conditional_edges' = n.conditional_edges
                /\ procedure' = n.procedure
                /\ max_epochs' = built.max_epochs
                /\ epoch_count' = 0
                /\ pc' = "idle"
           ELSE UNCHANGED <<graph, conditional_edges, procedure, max_epochs, epoch_count, pc>>

\* network.set_max_epochs(n)
SetMaxEpochsCall ==
    /\ pc = "idle"
    /\ \E n \in CeilingsGiven :
          LET set == SetMaxEpochs(max_epochs, n) IN
          /\ Configured("set_max_epochs", <<n>>, set.exc)
          /\ max_epochs' = set.max_epochs
          /\ UNCHANGED <<graph, conditional_edges, procedure, epoch_count, pc>>

NextConfigure ==
    \/ Construct
    \/ SetMaxEpochsCall

\* no network built yet
InitConfigure == InitIdleNetwork /\ InitWorker /\ InitSchedulerOff /\ InitLibraryOff /\ InitControllerOff

SpecConfigure == InitConfigure /\ [][NextConfigure]_vars

(***************************************************************************)
(* The controller and the gate (ControllerABC, Gate).  A controller is the  *)
(* record of its client, its request batch and its platform type key.       *)
(***************************************************************************)
\* items one batch is followed up to
MaxBatch == 2
\* requests the procedure of one activation sends by itself
MaxRequests == 1

\* client_types, connection.py line 202 to 204
ClientTypes == {"tcp"}
Client(type) == [k |-> "client", v |-> type]

Controller == [client |-> client, request_items |-> request_items,
               platform_type_key |-> platform_type_key]

\* what a call leaves: the controller, what it raised, the batches it handed
\* to the client
Did(c, exc, requests) == [controller |-> c, exc |-> exc, handed |-> requests]

\* str.lower().strip() of line 142, on the strings the calls are given
LowerStrip(s) ==
    CASE s = " GET" -> "get"
      [] s = "Components " -> "components"
      [] OTHER -> s

\* add_request_item that does not look for a client
AddRequestItemUnchecked(c, method, resource, kwargs) ==
    Did([c EXCEPT !.request_items =
                      Append(@, Item(LowerStrip(method), LowerStrip(resource), kwargs))],
        "", <<>>)

\* add_request_item, line 138 to 142
AddRequestItem(c, method, resource, kwargs) ==
    IF c.client = PyNone
    THEN Did(c, "NotImplementedError", <<>>)
    ELSE Did([c EXCEPT !.request_items =
                           Append(@, Item(LowerStrip(method), LowerStrip(resource), kwargs))],
             "", <<>>)

\* _check_platform_is_set, line 189 to 191
PlatformIsSet(c) == c.platform_type_key # PyNone

\* the calls that queue an item, line 94 to 142: each makes its checks and
\* then calls add_request_item
Queue(c, name, args) ==
    CASE name = "add_request_item" ->
             AddRequestItem(c, args.method, args.resource, args.kwargs)
      [] name = "add_platform" ->
             IF args.type \notin PlatformTypes THEN Did(c, "ValueError", <<>>)
             ELSE AddRequestItem([c EXCEPT !.platform_type_key = PyStr(args.type)],
                                 "add", "platform", args)
      [] name = "remove_platform" -> AddRequestItem(c, "remove", "platform", NoKwargs)
      [] name = "add_component" ->
             IF ~PlatformIsSet(c) THEN Did(c, "NotImplementedError", <<>>)
             ELSE IF args.type \notin ComponentTypes THEN Did(c, "ValueError", <<>>)
             ELSE AddRequestItem(c, "add", "component", args)
      [] name \in {"get_components", "get_routines"} ->
             IF ~PlatformIsSet(c) THEN Did(c, "NotImplementedError", <<>>)
             ELSE AddRequestItem(c, "get", IF name = "get_components" THEN "components"
                                           ELSE "routines", NoKwargs)
      [] OTHER ->
             IF ~PlatformIsSet(c) THEN Did(c, "NotImplementedError", <<>>)
             ELSE AddRequestItem(c,
                      CASE name \in {"add_routine"} -> "add"
                        [] name \in {"remove_component", "remove_routine"} -> "remove"
                        [] name = "execute_component" -> "execute"
                        [] name = "get_observations" -> "get",
                      CASE name = "get_observations" -> "observations"
                        [] name \in {"add_routine", "remove_routine"} -> "routine"
                        [] OTHER -> "component",
                      args)

\* how a request that was handed to the client ends: send_and_receive or
\* decode_response raises (connection.py line 108 to 112), or the response
\* comes back and a middleware raises on it (controller.py line 177, 178),
\* or every middleware handles it
Fates == {"refused", "mishandled", "handled"}

\* send_request, line 169 to 180
SendRequest(c, fate) ==
    IF c.client = PyNone THEN Did(c, "NotImplementedError", <<>>)
    ELSE IF fate = "refused" THEN Did(c, "ConnectionRefusedError", <<c.request_items>>)
    ELSE Did([c EXCEPT !.request_items = <<>>],
             IF fate = "mishandled" THEN "TypeError" ELSE "",
             <<c.request_items>>)

\* set_client, line 148 to 156
SetClient(c, type) ==
    IF type \in ClientTypes THEN Did([c EXCEPT !.client = Client(type)], "", <<>>)
    ELSE Did(c, "KeyError", <<>>)

\* remove_client, line 158 to 160
RemoveClient(c) == Did([c EXCEPT !.client = PyNone], "", <<>>)

\* the calls made on the gate
QueueCalls ==
    {[name |-> "add_request_item",
      args |-> [method |-> " GET", resource |-> "Components ", kwargs |-> NoKwargs]],
     [name |-> "add_platform", args |-> [type |-> "debug"]],
     [name |-> "add_platform", args |-> [type |-> "nope"]],
     [name |-> "remove_platform", args |-> NoKwargs],
     [name |-> "add_component", args |-> [key |-> "x", type |-> "output", setup |-> {"pin_id"}]],
     [name |-> "add_component", args |-> [key |-> "x", type |-> "nope", setup |-> {}]],
     [name |-> "add_routine", args |-> [key |-> "r", interval |-> 1000, executor |-> "x",
                                        operation |-> "toggle", kwargs |-> NoKwargs]],
     [name |-> "remove_component", args |-> [key |-> "x"]],
     [name |-> "remove_routine", args |-> [key |-> "r"]],
     [name |-> "execute_component", args |-> [key |-> "x", operation |-> "toggle",
                                              kwargs |-> NoKwargs]],
     [name |-> "get_observations", args |-> [selected |-> PyNone]],
     [name |-> "get_components", args |-> NoKwargs],
     [name |-> "get_routines", args |-> NoKwargs]}

\* a call on the gate, made by the program or by the running procedure: the
\* call is recorded with the gate it found
GateCalled(op, args, did) ==
    /\ call' = [op |-> op, args |-> args, controller |-> Controller,
                handed |-> IF gate_pc = "idle" THEN <<>> ELSE handed]
    /\ outcome' = [exc |-> did.exc, value |-> PyNone]
    /\ client' = did.controller.client
    /\ request_items' = did.controller.request_items
    /\ platform_type_key' = did.controller.platform_type_key
    /\ handed' = (IF gate_pc = "idle" THEN <<>> ELSE handed) \o did.handed
    /\ activation' =
           IF gate_pc = "procedure" /\ did.exc = ""
              /\ Len(did.controller.request_items) > Len(request_items)
           THEN <<[activation[1] EXCEPT
                       !.queued = Append(@, did.controller.request_items[
                                                Len(did.controller.request_items)])]>>
           ELSE IF gate_pc = "idle" THEN <<>> ELSE activation
    /\ UNCHANGED <<gate_feed, gate_pc>>
    /\ UNCHANGED <<gn_vars, worker_vars, sched_vars>>
    /\ UNCHANGED <<dgraph, to_encode, to_decode, decoded>>

QueueCallOf(calls) ==
    /\ Len(request_items) < MaxBatch
    /\ \E c \in calls : GateCalled(c.name, c.args, Queue(Controller, c.name, c.args))

QueueCall == gate_pc = "idle" /\ QueueCallOf(QueueCalls)

SendRequestCall ==
    /\ gate_pc = "procedure" => Len(handed) < MaxRequests
    /\ \E fate \in Fates : GateCalled("send_request", fate, SendRequest(Controller, fate))

SetClientCall ==
    \E type \in {"tcp", "udp"} : GateCalled("set_client", type, SetClient(Controller, type))

RemoveClientCall == GateCalled("remove_client", <<>>, RemoveClient(Controller))

\* Gate.run that sends whenever a client is set
FlushesAlways(c) == c.client # PyNone

\* Gate.run, line 50: a client is set and request items are stored
Flushes(c) == c.client # PyNone /\ c.request_items # <<>>

\* the feeds a gate is run with
Feeds == {PyNone, X1}

\* Gate.run, line 39 to 46: the feed is stored and the procedure is called
CallProcedure ==
    /\ gate_pc = "idle"
    /\ \E given \in Feeds :
          /\ gate_feed' = given
          /\ activation' = <<[feed |-> given, found |-> request_items, queued |-> <<>>,
                               left |-> <<>>]>>
          /\ call' = [op |-> "call_procedure", args |-> given, controller |-> Controller,
                      handed |-> <<>>]
    /\ gate_pc' = "procedure"
    /\ handed' = <<>>
    /\ outcome' = <<>>
    /\ UNCHANGED <<client, request_items, platform_type_key>>
    /\ UNCHANGED <<gn_vars, worker_vars, sched_vars>>
    /\ UNCHANGED <<dgraph, to_encode, to_decode, decoded>>

\* the procedure raises: run is left at line 44 or 46
ProcedureRaises ==
    /\ gate_pc = "procedure"
    /\ gate_pc' = "idle"
    /\ call' = [op |-> "run", args |-> activation[1].feed, controller |-> Controller,
                handed |-> handed]
    /\ outcome' = [exc |-> "Exception", value |-> PyNone]
    /\ UNCHANGED <<client, request_items, platform_type_key, gate_feed, handed, activation>>
    /\ UNCHANGED <<gn_vars, worker_vars, sched_vars>>
    /\ UNCHANGED <<dgraph, to_encode, to_decode, decoded>>

\* the procedure returns: Gate.run, line 47 to 52
ProcedureReturns ==
    /\ gate_pc = "procedure"
    /\ gate_pc' = "idle"
    /\ gate_feed' = PyNone
    /\ activation' = <<[activation[1] EXCEPT
                            !.left = <<[controller |-> Controller, handed |-> handed]>>]>>
    /\ call' = [op |-> "run", args |-> activation[1].feed, controller |-> Controller,
                handed |-> handed]
    /\ IF Flushes(Controller)
       THEN \E fate \in Fates :
               LET did == SendRequest(Controller, fate) IN
               /\ request_items' = did.controller.request_items
               /\ handed' = handed \o did.handed
               /\ outcome' = [exc |-> did.exc, value |-> PyNone]
       ELSE /\ outcome' = [exc |-> "", value |-> PyNone]
            /\ UNCHANGED <<request_items, handed>>
    /\ UNCHANGED <<client, platform_type_key>>
    /\ UNCHANGED <<gn_vars, worker_vars, sched_vars>>
    /\ UNCHANGED <<dgraph, to_encode, to_decode, decoded>>

NextController ==
    \/ QueueCall
    \/ SendRequestCall
    \/ SetClientCall
    \/ RemoveClientCall

InitController ==
    InitIdleNetwork /\ InitWorker /\ InitSchedulerOff /\ InitLibraryOff /\ InitControllerOff

\* a controller the program queues on and sends from
SpecController == InitController /\ [][NextController]_vars

\* the calls a gate is followed through: by the program, and by its procedure
GateQueueCalls ==
    {c \in QueueCalls : c.name \in {"add_request_item", "remove_platform"}}

GateQueueCall == QueueCallOf(GateQueueCalls)

NextGate ==
    \/ GateQueueCall
    \/ SendRequestCall
    \/ SetClientCall
    \/ RemoveClientCall
    \/ CallProcedure
    \/ ProcedureRaises
    \/ ProcedureReturns

\* a gate the program and the procedure of the gate queue on and send from
SpecGate == InitController /\ [][NextGate]_vars

(***************************************************************************)
(* Editing a gate network (GateNetwork.add_gate, remove_gate, add_edge,     *)
(* remove_edge, add_conditional_edge, remove_conditional_edge): what a call *)
(* leaves of the network, and what it raised.                               *)
(***************************************************************************)
Network == [graph |-> graph, conditional_edges |-> conditional_edges, procedure |-> procedure]

Edited(n, exc) == [network |-> n, exc |-> exc]

\* the graph call made on the network: its graph is replaced, also when the
\* call raised
OnGraph(n, done) == Edited([n EXCEPT !.graph = done.graph], done.exc)

\* add_gate, line 100 to 103: the node is a new Gate, a set with no successor
NetworkAddGate(n, tag, proc) ==
    OnGraph([n EXCEPT !.procedure = MapSet(@, tag, proc)], GraphAddNode(n.graph, tag, <<{}>>))

\* remove_gate, line 112, 113
NetworkRemoveGate(n, tag) ==
    OnGraph([n EXCEPT !.procedure = MapPop(@, tag)], GraphRemoveNode(n.graph, tag))

\* add_edge, line 124, 125
NetworkAddEdge(n, from_tag, to_tag) == OnGraph(n, GraphAddEdge(n.graph, from_tag, to_tag))

\* remove_edge, line 127, 128
NetworkRemoveEdge(n, from_tag, to_tag) ==
    OnGraph(n, GraphRemoveEdge(n.graph, from_tag, to_tag))

\* add_conditional_edge, line 150, 151: the table entry is written, then the
\* edge is added
RecordThenAdd(n, from_tag, to_tag, target, path, evaluator) ==
    NetworkAddEdge([n EXCEPT !.conditional_edges =
                        MapSet(@, <<from_tag, to_tag>>,
                               [path |-> path, evaluator |-> evaluator, target |-> target])],
                   from_tag, to_tag)

\* add_conditional_edge, line 135 to 155; fallback_tag = "" stands for None
NetworkAddConditionalEdge(n, from_tag, to_tag, target, path, evaluator, fallback_tag) ==
    LET first == RecordThenAdd(n, from_tag, to_tag, target, path, evaluator)
    IN  IF first.exc # "" \/ fallback_tag = "" THEN first
        ELSE RecordThenAdd(first.network, from_tag, fallback_tag, target, path,
                           Negated(evaluator))

\* remove_conditional_edge, line 157 to 161
NetworkRemoveConditionalEdge(n, from_tag, to_tag) ==
    NetworkRemoveEdge([n EXCEPT !.conditional_edges = MapPop(@, <<from_tag, to_tag>>)],
                      from_tag, to_tag)

\* the tags of the gates the network is edited with
EditTags == {"A", "B"}

\* a call that edits the network
EditCalled(op, args, edited) ==
    /\ pc = "unused"
    /\ call' = [op |-> op, args |-> args, network |-> Network]
    /\ outcome' = [exc |-> edited.exc, value |-> PyNone]
    /\ graph' = edited.network.graph
    /\ conditional_edges' = edited.network.conditional_edges
    /\ procedure' = edited.network.procedure
    /\ UNCHANGED <<max_epochs, epoch_count, pc, current_generation, current_generation_copy,
                   unsatisfied, resolved, to_be_evaluated, next_generation, tag_index,
                   children_left, raised, log, warned>>
    /\ UNCHANGED <<worker_vars, sched_vars, ctl_vars>>
    /\ UNCHANGED <<dgraph, to_encode, to_decode, decoded>>

AddGateCall ==
    \E tag \in EditTags : EditCalled("add_gate", <<tag>>, NetworkAddGate(Network, tag, {X1}))

RemoveGateCall ==
    \E tag \in EditTags : EditCalled("remove_gate", <<tag>>, NetworkRemoveGate(Network, tag))

NetworkAddEdgeCall ==
    \E from_tag \in EditTags, to_tag \in EditTags :
        EditCalled("add_edge", <<from_tag, to_tag>>, NetworkAddEdge(Network, from_tag, to_tag))

NetworkRemoveEdgeCall ==
    \E from_tag \in EditTags, to_tag \in EditTags :
        EditCalled("remove_edge", <<from_tag, to_tag>>,
                   NetworkRemoveEdge(Network, from_tag, to_tag))

AddConditionalEdgeCall ==
    \E from_tag \in EditTags, to_tag \in EditTags, fallback_tag \in EditTags \cup {""} :
        EditCalled("add_conditional_edge", <<from_tag, to_tag, fallback_tag>>,
                   NetworkAddConditionalEdge(Network, from_tag, to_tag, PyInt(1), PathX,
                                             Evaluator("eq"), fallback_tag))

RemoveConditionalEdgeCall ==
    \E from_tag \in EditTags, to_tag \in EditTags :
        EditCalled("remove_conditional_edge", <<from_tag, to_tag>>,
                   NetworkRemoveConditionalEdge(Network, from_tag, to_tag))

NextEdit ==
    \/ AddGateCall
    \/ RemoveGateCall
    \/ NetworkAddEdgeCall
    \/ NetworkRemoveEdgeCall
    \/ AddConditionalEdgeCall
    \/ RemoveConditionalEdgeCall

\* a network of the one gate A
SpecEdit == InitController /\ [][NextEdit]_vars

(***************************************************************************)
(* Dotted-path lookup (get_nested), called on its own.                      *)
(***************************************************************************)
\* the paths looked up, as the characters of the string
Paths == {<<"x">>, <<"y">>, <<"x", ".", "y">>, <<"x", ".", "y", ".", "x">>, <<"x", ".">>,
          <<>>, <<"y", ".", "x">>, <<".", "x">>}

\* the values an item of a mapping holds
Leaves == {PyInt(1), PyNone, [k |-> "str", v |-> <<"a", "y">>], [k |-> "str", v |-> <<"a">>],
           PyList(<<[k |-> "str", v |-> <<"y">>]>>), PyList(<<PyInt(1)>>)}

\* the mappings looked in: flat, and nested one and two levels deep
NestedMappings ==
    {Empty, Y1}
      \cup {PyDict(Kx :> leaf) : leaf \in Leaves}
      \cup {PyDict(Kx :> PyDict(Ky :> leaf)) : leaf \in Leaves}
      \cup {PyDict((Kx :> PyDict(Ky :> X1)) @@ (Ky :> leaf)) : leaf \in Leaves}

\* get_nested(keys, mapping)
GetNestedCall ==
    \E keys \in Paths, mapping \in NestedMappings :
        LET found == GetNested(keys, mapping) IN
        /\ call' = [op |-> "get_nested", args |-> <<keys, mapping>>]
        /\ outcome' = IF found.k = "raise" THEN [exc |-> found.v, value |-> PyNone]
                      ELSE [exc |-> "", value |-> found]
        /\ UNCHANGED <<dgraph, to_encode, to_decode, decoded>>
        /\ UNCHANGED <<gn_vars, worker_vars, sched_vars, ctl_vars>>

NextLookup == GetNestedCall

SpecLookup == InitController /\ [][NextLookup]_vars

(***************************************************************************)
(* Properties of the gate network.                                          *)
(***************************************************************************)
IsNetwork(n) ==
    /\ graph = n.graph
    /\ conditional_edges = n.conditional_edges
    /\ procedure = n.procedure

\* an epoch of the loop has just ended: the loop is back at its top, or run has returned
EpochEnded == pc \in {"loop", "done"} /\ epoch_count >= 1

Started == log # <<>>
StartTag == log[1].tag
Executed(tag) == \E i \in DOMAIN log : log[i].tag = tag
ExecutedIn(tag, epoch) == \E i \in DOMAIN log : log[i].tag = tag /\ log[i].epoch = epoch
ExecutedBefore(tag, epoch) == \E i \in DOMAIN log : log[i].tag = tag /\ log[i].epoch < epoch

\* the in-neighbours of a gate over unconditional edges, read off the graph
UnconditionalInNeighbours(tag) ==
    {g \in DOMAIN graph : tag \in graph[g] /\ <<g, tag>> \notin DOMAIN conditional_edges}
ConditionalInNeighbours(tag) ==
    {g \in DOMAIN graph : tag \in graph[g] /\ <<g, tag>> \in DOMAIN conditional_edges}

\* C1: with an epoch ceiling n >= 1 the loop never starts an epoch beyond the
\* n-th: run has returned once n epochs are counted, it returns with
\* epoch_count = n when current is not empty by then, and it never returns
\* before one epoch.
C1_EpochCeiling ==
    /\ pc = "done" => epoch_count >= 1
    /\ max_epochs # PyNone =>
          /\ epoch_count <= max_epochs.v
          /\ pc \in {"loop", "for", "execute"} => epoch_count < max_epochs.v
          /\ pc = "done" /\ current_generation # <<>> => epoch_count = max_epochs.v

\* the conditional loop A -> B -> A under ceiling 1 has returned after one epoch
C1_Witness ==
    /\ IsNetwork(ConditionalLoop)
    /\ max_epochs = PyInt(1)
    /\ pc = "done"
    /\ epoch_count = 1
    /\ current_generation # <<>>
    /\ Len(log) = 2

\* the step of the loop of line 182 visits the successor child_tag
Visits(child_tag) ==
    /\ pc = "for"
    /\ child_tag \in children_left
    /\ \/ children_left' = children_left \ {child_tag} /\ tag_index' = tag_index
       \/ children_left = {child_tag} /\ tag_index' = tag_index + 1

\* the step activates child_tag over the unconditional edge from the current tag
ActivatesUnconditionally(child_tag) ==
    /\ Visits(child_tag)
    /\ <<CurrentTag, child_tag>> \notin DOMAIN conditional_edges
    /\ pc' # "raised"
    /\ child_tag \in ODKeys(to_be_evaluated')
    /\ child_tag \notin DOMAIN unsatisfied'

ResultAvailable(parent_tag, child_tag) ==
    \/ parent_tag \in ODKeys(current_generation_copy)
    \/ child_tag \in DOMAIN unsatisfied /\ parent_tag \in DOMAIN unsatisfied[child_tag]

\* C2: a successor is activated over an unconditional edge only when a result
\* of every unconditional in-neighbour is in the generation or in unsatisfied;
\* and a gate that has no conditional in-edge executes in the loop only after
\* each of its unconditional in-neighbours has executed in an earlier epoch.
C2_AllParents ==
    /\ [][\A child_tag \in Tags :
             ActivatesUnconditionally(child_tag) =>
                 \A parent_tag \in UnconditionalInNeighbours(child_tag) :
                     ResultAvailable(parent_tag, child_tag)]_vars
    /\ [](\A i \in DOMAIN log :
             log[i].epoch >= 1 /\ ConditionalInNeighbours(log[i].tag) = {} =>
                 \A parent_tag \in UnconditionalInNeighbours(log[i].tag) :
                     ExecutedBefore(parent_tag, log[i].epoch))

\* C of Join2 has executed, in the epoch after its second parent B
C2_Witness ==
    /\ IsNetwork(Join2)
    /\ Started /\ StartTag = "A"
    /\ ExecutedIn("B", 1)
    /\ ExecutedIn("C", 2)

\* C3: a gate with two or more unconditional parents and no conditional one
\* has executed by the end of the epoch that follows the epoch in which the
\* last of its parents produced a result.
C3_Accumulated ==
    \A tag \in DOMAIN graph :
        (/\ EpochEnded
         /\ ConditionalInNeighbours(tag) = {}
         /\ Cardinality(UnconditionalInNeighbours(tag)) >= 2
         /\ \A parent_tag \in UnconditionalInNeighbours(tag) :
                ExecutedBefore(parent_tag, epoch_count))
            => \E i \in DOMAIN log : log[i].tag = tag /\ log[i].epoch <= epoch_count

\* C4: at the end of an epoch no tag is a key of two of current, unsatisfied
\* and resolved.
C4_OneMap ==
    EpochEnded =>
        /\ ODKeys(current_generation) \cap DOMAIN unsatisfied = {}
        /\ ODKeys(current_generation) \cap DOMAIN resolved = {}
        /\ DOMAIN unsatisfied \cap DOMAIN resolved = {}

FallbackNetworks == {Fallback, FallbackNested, FallbackFalse}

\* the value at the dotted path, "not found" when a segment is absent
ValueAt(path, result) ==
    LET found == GetNested(path, result) IN IF found.k = "raise" THEN PyNone ELSE found

\* C5: once A of a fallback network has produced a mapping and its epoch is
\* over, B has been activated iff the predicate holds on the value at the
\* path and C iff it does not; on the always-false predicate a run without
\* ceiling returns C resolved and B never invoked.
C5_ExactlyOne ==
    /\ \A n \in FallbackNetworks :
          (/\ IsNetwork(n)
           /\ Started /\ StartTag = "A" /\ IsDict(log[1].result)
           /\ pc \in {"done", "raised"} \/ epoch_count >= 1)
              => LET edge == conditional_edges[<<"A", "B">>]
                     holds == Evaluate(edge.evaluator, ValueAt(edge.path, log[1].result),
                                       edge.target)
                 IN  /\ ExecutedIn("B", 1) <=> holds
                     /\ ExecutedIn("C", 1) <=> ~holds
    /\ (/\ IsNetwork(FallbackFalse)
        /\ Started /\ StartTag = "A" /\ IsDict(log[1].result)
        /\ max_epochs = PyNone /\ pc = "done")
           => "C" \in DOMAIN resolved /\ ~Executed("B")

\* the feed a gate is given for one parent's result: None is merged as {}
AsFeed(result) == IF result = PyNone THEN Empty ELSE result

\* C6: on the chain A -> B -> C started at A the gates execute in the order
\* A, B, C, once each, B in epoch 1 and C in epoch 2, each on its
\* predecessor's result; every epoch that ends has traversed its link; and a
\* run that no ceiling below 3 cuts short returns after 3 epochs with
\* resolved = {C: C's result}.
C6_Chain ==
    (IsNetwork(Chain) /\ Started /\ StartTag = "A") =>
        /\ Len(log) <= 3
        /\ \A i \in DOMAIN log : log[i].tag = <<"A", "B", "C">>[i] /\ log[i].epoch = i - 1
        /\ \A i \in DOMAIN log : i >= 2 => log[i].feed = AsFeed(log[i - 1].result)
        /\ EpochEnded => Len(log) >= (IF epoch_count >= 2 THEN 3 ELSE 2)
        /\ (pc = "done" /\ (max_epochs = PyNone \/ max_epochs.v >= 3)) =>
              /\ epoch_count = 3
              /\ Len(log) = 3
              /\ resolved = ("C" :> log[3].result)

\* the chain has been resolved
C6_Witness ==
    /\ IsNetwork(Chain)
    /\ Started /\ StartTag = "A"
    /\ log[1].result = X1
    /\ pc = "done"
    /\ "C" \in DOMAIN resolved

\* C7: every tag of resolved is a gate without successors that has executed
\* in this run, and its entry is a result of one of its executions.
C7_ResolvedAreSinks ==
    \A tag \in DOMAIN resolved :
        /\ graph[tag] = {}
        /\ \E i \in DOMAIN log : log[i].tag = tag /\ log[i].result = resolved[tag]

\* the diamond has returned its sink D, and A, B, C are not in resolved
C7_Witness ==
    /\ IsNetwork(Diamond)
    /\ pc = "done"
    /\ DOMAIN resolved = {"D"}
    /\ Executed("B") /\ Executed("C")

\* C8: once a tag is in resolved its entry stays as it is and the gate does
\* not execute again.
C8_Final ==
    [][\A tag \in DOMAIN resolved :
          /\ tag \in DOMAIN resolved'
          /\ resolved'[tag] = resolved[tag]
          /\ Len(log') > Len(log) => log'[Len(log')].tag # tag]_vars

\* the unconditional edges of the graph
UnconditionalEdges ==
    {e \in (DOMAIN graph) \X Tags : e[2] \in graph[e[1]] /\ e \notin DOMAIN conditional_edges}

\* the tags reached from the set seen over the edges
RECURSIVE Reach(_, _)
Reach(seen, edges) ==
    LET more == seen \cup {e[2] : e \in {x \in edges : x[1] \in seen}}
    IN  IF more = seen THEN seen ELSE Reach(more, edges)

OnCycle(tag, edges) == tag \in Reach({e[2] : e \in {x \in edges : x[1] = tag}}, edges)

\* the unconditional edges into gates that have no other unconditional parent
SoleParentEdges ==
    {e \in UnconditionalEdges : UnconditionalInNeighbours(e[2]) = {e[1]}}

\* C9 as stated: started on a cycle of unconditional edges without ceiling, run
\* never returns and current is not empty at the end of any epoch.
C9_NeverReturns ==
    (Started /\ max_epochs = PyNone /\ OnCycle(StartTag, UnconditionalEdges)) =>
        /\ pc # "done"
        /\ EpochEnded => current_generation # <<>>

\* C9 amended: the same when each gate of the cycle has its predecessor on the
\* cycle as its only unconditional in-neighbour.
C9_SoleParentCycle ==
    (Started /\ max_epochs = PyNone /\ OnCycle(StartTag, SoleParentEdges)) =>
        /\ pc # "done"
        /\ EpochEnded => current_generation # <<>>

\* the cycle with a sink behind it is still running after three epochs
C9_Witness ==
    /\ IsNetwork(CycleSink)
    /\ Started /\ StartTag = "A"
    /\ max_epochs = PyNone
    /\ pc = "loop"
    /\ epoch_count >= 3
    /\ "C" \in DOMAIN resolved

(***************************************************************************)
(* Properties of the worker.                                                *)
(***************************************************************************)
\* C10: the Response decoded from what _on_receive returns never has both an
\* error and a feedback: feedback only without error, error only without feedback.
C10_Exclusive ==
    \A i \in DOMAIN response :
        LET r == DecodeResponse(response[i])
        IN  /\ r.feedback # PyNone => r.error = PyNone
            /\ r.error # PyNone => r.feedback = PyNone

\* a batch failed on a caught error after an earlier item had set the platform
C10_Witness ==
    /\ response # <<>>
    /\ DecodeResponse(response[1]).error # PyNone
    /\ DecodeResponse(response[1]).feedback = PyNone
    /\ platform # PyNone

\* the items of a list handled one after another from its front, each on the
\* registries the one before it left: the registries and the merged response at
\* the end, or the exception of the first item that fails
RECURSIVE InOrder(_, _, _)
InOrder(w, list, so_far) ==
    IF list = <<>> THEN Returned(w, so_far)
    ELSE LET done == ProcessRequestItem(w, Head(list), so_far)
         IN  IF done.exc # "" THEN done ELSE InOrder(done.w, Tail(list), done.result)

InBatch == worker_pc = "items"
HandledSoFar == SubSeq(items, 1, Len(items) - items_left)

\* the handler leaves the loop of line 154 in this step
BatchEnds == InBatch /\ worker_pc' = "idle"

\* C11: the items of a request are handled in submission order, each on the
\* registries its predecessors left: inside a batch the registries and the
\* merged response are those of the handled prefix of the list applied in
\* order to the registries the request found, and the batch ends with the
\* feedback, the error and the registries of the whole list applied in order.
C11_InOrder ==
    /\ [](InBatch =>
             LET done == InOrder(start[1], HandledSoFar, EmptyMap)
             IN  /\ done.exc = ""
                 /\ Registries = done.w
                 /\ merged = done.result)
    /\ [][BatchEnds =>
             LET done == InOrder(start[1], items, EmptyMap)
             IN  /\ platform' = done.w.platform
                 /\ routines' = done.w.routines
                 /\ done.exc = "" =>
                        /\ response' # <<>>
                        /\ DecodeResponse(response'[1]).feedback = PyDict(done.result)
                 /\ done.exc \in CaughtErrors =>
                        /\ response' # <<>>
                        /\ DecodeResponse(response'[1]).error = ErrorString(done.exc, done.msg)
                 /\ done.exc \notin CaughtErrors \cup {""} => propagated' = done.exc]_vars

\* a component added by the first item is listed by the second
C11_Witness ==
    /\ InBatch
    /\ items_left = 0
    /\ items = <<Item("add", "component", [key |-> "x", type |-> "output", setup |-> {"pin_id"}]),
                 Item("get", "components", NoKwargs)>>
    /\ start[1].platform = Platform(<<>>)
    /\ merged = ("get" :> ("components" :> PyList(<<"x">>)))

\* the loop of line 154 is about to handle an item of this method and resource
Handling(method, resource) ==
    /\ InBatch
    /\ items_left > 0
    /\ CurrentItem.method = method
    /\ CurrentItem.resource = resource

\* the handler returns a Response whose error is set, and is ready for the next request
ErrorReturned ==
    /\ response' # <<>>
    /\ DecodeResponse(response'[1]).error # PyNone
    /\ DecodeResponse(response'[1]).feedback = PyNone
    /\ propagated' = ""
    /\ worker_pc' = "idle"

\* the error string mentions the word
Names(error, word) == \E i \in DOMAIN error.v : error.v[i] = word

\* C12: execute/component on a key the platform does not hold ends the batch
\* with a Response whose error names the key; the platform and the routines
\* are as they were before the item, and the handler is ready for the next
\* request.
C12_UnknownComponent ==
    [][(/\ Handling("execute", "component")
        /\ platform # PyNone
        /\ CurrentItem.kwargs.key \notin ODKeys(platform.v))
           => /\ ErrorReturned
              /\ Names(DecodeResponse(response'[1]).error, CurrentItem.kwargs.key)
              /\ platform' = platform
              /\ routines' = routines]_vars

\* a request to operate the servo y was refused on a platform that has no y
C12_Witness ==
    /\ worker_pc = "idle"
    /\ response # <<>>
    /\ DecodeResponse(response[1]).error
           = ErrorString("RuntimeError", <<"component_not_found", "y">>)
    /\ platform # PyNone
    /\ "y" \notin ODKeys(platform.v)

\* the items whose handler reads or writes the platform
NeedsPlatform(item) ==
    <<item.method, item.resource>> \in
        {<<"add", "component">>, <<"remove", "component">>, <<"execute", "component">>,
         <<"add", "routine">>, <<"get", "components">>, <<"get", "observations">>}

\* C13: an item that needs the platform, handled while the worker has none,
\* ends the batch with a Response whose error is set, and the handler is
\* ready for the next request.
C13_NoPlatform ==
    [][(/\ InBatch
        /\ items_left > 0
        /\ NeedsPlatform(CurrentItem)
        /\ platform = PyNone)
           => ErrorReturned]_vars

\* C14: an item whose method is none of add, remove, execute, get ends the
\* batch with a Response whose error names each of the four methods; no handler
\* runs for it or for the items behind it (the registries stay as they are and
\* the loop is left), and the handler is ready for the next request.
C14_UnknownMethod ==
    [][(/\ InBatch
        /\ items_left > 0
        /\ CurrentItem.method \notin {"add", "remove", "execute", "get"})
           => /\ ErrorReturned
              /\ \A method \in {"add", "remove", "execute", "get"} :
                     Names(DecodeResponse(response'[1]).error, method)
              /\ platform' = platform
              /\ routines' = routines
              /\ items' = <<>>]_vars

\* a put item was refused after an earlier request had set the platform up
C14_Witness ==
    /\ worker_pc = "idle"
    /\ response # <<>>
    /\ DecodeResponse(response[1]).error # PyNone
    /\ Names(DecodeResponse(response[1]).error, "put")
    /\ Names(DecodeResponse(response[1]).error, "execute")
    /\ platform # PyNone

\* C15: an item whose method is known and whose resource is not in that
\* method's table (execute/routine) ends the batch with a Response whose error
\* is set, the registries as they were, and the handler ready for the next
\* request.
C15_UnknownResource ==
    [][(/\ InBatch
        /\ items_left > 0
        /\ CurrentItem.method \in Methods
        /\ CurrentItem.resource \notin Resources(CurrentItem.method))
           => /\ ErrorReturned
              /\ platform' = platform
              /\ routines' = routines]_vars

\* C16: add/routine naming an executor that is no component of the worker's
\* platform ends the batch with a Response whose error is set; the routines
\* stay as they are, so no routine of that key is added or replaced.
C16_MissingExecutor ==
    [][(/\ Handling("add", "routine")
        /\ platform # PyNone
        /\ CurrentItem.kwargs.executor \notin ODKeys(platform.v))
           => /\ ErrorReturned
              /\ Names(DecodeResponse(response'[1]).error, CurrentItem.kwargs.executor)
              /\ routines' = routines
              /\ platform' = platform]_vars

\* the routine r on the component x is still registered after a request to
\* replace it by one on z, which the platform does not hold, was refused
C16_Witness ==
    /\ worker_pc = "idle"
    /\ response # <<>>
    /\ DecodeResponse(response[1]).error
           = ErrorString("RuntimeError", <<"component_not_found", "z">>)
    /\ platform # PyNone
    /\ "r" \in ODKeys(routines)
    /\ ODGet(routines, "r").executor = "x"

(***************************************************************************)
(* Properties of the routines thread.                                       *)
(***************************************************************************)
\* the fires of one routine, in the order they happened
FiresOf(key) == SelectSeq(fired, LAMBDA f : f.key = key)

\* the thread has finished its pass and sleeps
PassDone == sched_pc = "sleep"

\* C17: ticking once per millisecond, a routine of interval 1.0 s fires at the
\* ticks 0, 1000, 2000, ... and at no other: once 3.0 s have passed it has
\* fired 3 times, give or take one, and between two consecutive fires of it
\* there is a tick at which the rounded modulo is not zero.
C17_OncePerSecond ==
    \A i \in DOMAIN routines :
        LET fires == FiresOf(routines[i][1])
        IN  routines[i][2].interval = 1000 =>
                /\ \A j \in DOMAIN fires : fires[j].at = (j - 1) * 1000
                /\ PassDone => Len(fires) = (now + 999) \div 1000
                /\ (PassDone /\ now >= 3000) => Len(fires) \in 2..4
                /\ \A j \in 1..(Len(fires) - 1) :
                       \E t \in (fires[j].at + 1)..(fires[j + 1].at - 1) :
                           /\ (t % 1000) > 500
                           /\ IntervalMod(t, 1000) # 0

\* three seconds have passed and the routine r of interval 1.0 s has fired 3 times
C17_Witness ==
    /\ PassDone
    /\ now = 3000
    /\ routines = << <<"r", Routine("x", "toggle", 1000)>> >>
    /\ Len(FiresOf("r")) = 3
    /\ to_update = ("r" :> FALSE)

\* C18: a routine of any interval T fires once in every window of length T:
\* when k whole intervals have passed since the thread started it has fired
\* k times, give or take one.
C18_Periodic ==
    \A i \in DOMAIN routines :
        LET T == routines[i][2].interval
            k == now \div T
        IN  (PassDone /\ now % T = 0) =>
                /\ Len(FiresOf(routines[i][1])) >= k - 1
                /\ Len(FiresOf(routines[i][1])) <= k + 1

RemovesRoutine(item) == item.method = "remove" /\ item.resource = "routine"

\* C19: a routine is not fired after remove_routine has taken it out, and
\* taking routines out leaves the thread running for the routines that stay.
C19_RemovedDropsOut ==
    /\ \A i \in DOMAIN mutations :
           RemovesRoutine(mutations[i].item) =>
               \A j \in DOMAIN fired :
                   j > mutations[i].fires => fired[j].key # mutations[i].item.kwargs.key
    /\ (/\ mutations # <<>>
        /\ \A i \in DOMAIN mutations : RemovesRoutine(mutations[i].item))
           => sched_pc # "dead"

\* C20: whatever the request path does to the registries beside it, and
\* whatever a routine's operation does, the thread does not end.
C20_KeepsTicking == sched_pc \in {"sleep", "scan", "visit"} /\ sched_raised = ""

(***************************************************************************)
(* Properties of the transactions.                                          *)
(***************************************************************************)
Sent == to_encode[1]
Decoded == decoded[1]

\* the required fields of the class that are missing from the mapping or hold a
\* value of another type
Mismatched(datacls, mapping) ==
    {Annotations(datacls)[i][1] : i \in
        {j \in DOMAIN Annotations(datacls) :
            /\ ClassAttribute(datacls, Annotations(datacls)[j][1]) = <<>>
            /\ ~IsInstance(MappingGet(mapping, Annotations(datacls)[j][1]),
                           Annotations(datacls)[j][2])}}

\* the mapping the bytes in flight hold
Arrived == Loads(to_decode[1]).v

\* C21: decoding a payload in which a required field is missing or of the
\* wrong type raises ValueError with a message that names every such field; a
\* payload whose required fields are right is accepted whether or not it
\* carries feedback and error.
C21_ValidationNamesFields ==
    (decoded # <<>> /\ DOMAIN Arrived \subseteq FieldNames(Decoded.datacls)) =>
        IF Mismatched(Decoded.datacls, Arrived) # {}
        THEN /\ Decoded.exc = "ValueError"
             /\ Decoded.msg = Mismatched(Decoded.datacls, Arrived)
        ELSE Decoded.exc = ""

\* a value with every tuple in it read as the list of the same elements
RECURSIVE AsLists(_)
AsLists(value) ==
    CASE value.k \in {"list", "tuple"} ->
             PyList([i \in DOMAIN value.v |-> AsLists(value.v[i])])
      [] value.k = "dict" -> PyDict([key \in DOMAIN value.v |-> AsLists(value.v[key])])
      [] OTHER -> value

IsItem(value) ==
    /\ value.k \in {"list", "tuple"}
    /\ Len(value.v) = 3
    /\ value.v[1].k = "str" /\ value.v[2].k = "str" /\ value.v[3].k = "dict"

\* a mapping that holds a well-formed Request, or a well-formed Response
WellFormed(datacls, mapping) ==
    IF datacls = "Request"
    THEN /\ DOMAIN mapping = {"sent_time", "items"}
         /\ mapping["sent_time"].k = "float"
         /\ mapping["items"].k = "list"
         /\ \A i \in DOMAIN mapping["items"].v : IsItem(mapping["items"].v[i])
    ELSE /\ {"received_time", "sent_time"} \subseteq DOMAIN mapping
         /\ DOMAIN mapping \subseteq FieldNames("Response")
         /\ mapping["received_time"].k = "float"
         /\ mapping["sent_time"].k = "float"
         /\ MappingGet(mapping, "feedback").k \in {"none", "dict"}
         /\ MappingGet(mapping, "error").k \in {"none", "str"}

\* the record the sender's mapping holds
RecordOf(datacls, mapping) ==
    IF datacls = "Request" THEN MakeRequest(mapping) ELSE DecodeResponse(mapping)

RoundTripped == decoded # <<>> /\ WellFormed(Decoded.datacls, Sent)

\* C22 as stated: decoding the encoding of a well-formed Request or Response
\* returns a record equal to it.
C22_RoundTrip ==
    RoundTripped =>
        /\ Decoded.exc = ""
        /\ Decoded.value = RecordOf(Decoded.datacls, Sent)

\* C22, amended: decoding the encoding of a well-formed Request or Response
\* succeeds and returns the record with every tuple in it read as a list of
\* the same elements in the same order; everything else is equal.
C22_RoundTripAsLists ==
    RoundTripped =>
        /\ Decoded.exc = ""
        /\ Decoded.value = [f \in DOMAIN RecordOf(Decoded.datacls, Sent) |->
                               AsLists(RecordOf(Decoded.datacls, Sent)[f])]

\* a request of two tuple items has made the round trip
C22_Witness ==
    /\ RoundTripped
    /\ Decoded.datacls = "Request"
    /\ Sent["items"] = PyList(<<TupleItem("get", "components"), TupleItem("add", "component")>>)
    /\ Decoded.value.items = PyList(<<ListItem("get", "components"),
                                      ListItem("add", "component")>>)

(***************************************************************************)
(* Properties of the directed graph.                                        *)
(***************************************************************************)
After(op) == call # <<>> /\ call.op = op

\* C23: after remove_node(G, k), whatever calls built G, k is not a node of G
\* and no node's successor set contains k.
C23_NoEdgeLeft ==
    After("remove_node") =>
        /\ call.args[1] \notin DOMAIN dgraph
        /\ \A node_key \in DOMAIN dgraph : call.args[1] \notin dgraph[node_key]

\* the graph g with the edge from_key -> to_key in it and nothing else changed
WithEdge(g, h, from_key, to_key) ==
    /\ DOMAIN h = DOMAIN g
    /\ to_key \in h[from_key]
    /\ h[from_key] \ {to_key} = g[from_key] \ {to_key}
    /\ \A node_key \in DOMAIN g \ {from_key} : h[node_key] = g[node_key]

\* C24 as stated: add_edge(G, k, k) raises ValueError and leaves G as it was;
\* add_edge(G, a, b) with a # b inserts the edge, and the same call once more
\* leaves G as it is.
C24_AddEdge ==
    After("add_edge") =>
        IF call.args[1] = call.args[2]
        THEN outcome.exc = "ValueError" /\ dgraph = call.graph
        ELSE /\ outcome.exc = ""
             /\ WithEdge(call.graph, dgraph, call.args[1], call.args[2])
             /\ GraphAddEdge(dgraph, call.args[1], call.args[2]) = Went(dgraph)

\* C24, amended: add_edge(G, k, k) raises ValueError and leaves G as it was,
\* whether or not k is a node; add_edge(G, a, b) with a # b and a a node of G
\* inserts the edge, and the same call once more leaves G as it is; when a is
\* not a node the call raises KeyError and leaves G as it was.
C24_AddEdgeFromNode ==
    After("add_edge") =>
        CASE call.args[1] = call.args[2] ->
                 outcome.exc = "ValueError" /\ dgraph = call.graph
          [] call.args[1] # call.args[2] /\ call.args[1] \in DOMAIN call.graph ->
                 /\ outcome.exc = ""
                 /\ WithEdge(call.graph, dgraph, call.args[1], call.args[2])
                 /\ GraphAddEdge(dgraph, call.args[1], call.args[2]) = Went(dgraph)
          [] OTHER -> outcome.exc = "KeyError" /\ dgraph = call.graph

\* the edge a -> b has been inserted into a graph that has other edges
C24_Witness ==
    /\ After("add_edge")
    /\ call.args = <<"a", "b">>
    /\ call.graph = ("a" :> {"c"}) @@ ("b" :> {"a"}) @@ ("c" :> {})
    /\ dgraph = ("a" :> {"b", "c"}) @@ ("b" :> {"a"}) @@ ("c" :> {})

\* C25: whatever calls were made on the graph since it was empty, no node's
\* successor set contains the node's own key.
C25_NoSelfLoops == \A key \in DOMAIN dgraph : key \notin dgraph[key]

\* every edge of g joins two different nodes of g
Sound(g) == \A key \in DOMAIN g : g[key] \subseteq DOMAIN g \ {key}

HasTwoCycle(g) ==
    \E a \in DOMAIN g, b \in DOMAIN g : a # b /\ b \in g[a] /\ a \in g[b]

\* C26: is_acyclic returns False for every graph that holds a 2-cycle, whatever
\* else the graph holds, and True for the empty graph and a graph of no edges.
C26_TwoCycle ==
    (After("is_acyclic") /\ Sound(call.graph)) =>
        /\ HasTwoCycle(call.graph) =>
               outcome.exc = "" /\ outcome.value = PyBool(FALSE)
        /\ (\A key \in DOMAIN call.graph : call.graph[key] = {}) =>
               outcome.exc = "" /\ outcome.value = PyBool(TRUE)

\* path starts at key, follows edges of g, and ends at a sink of g or at key
CompleteFrom(g, key, path) ==
    /\ Len(path) >= 2
    /\ path[1] = key
    /\ \A i \in 1..(Len(path) - 1) : path[i + 1] \in g[path[i]]
    /\ g[path[Len(path)]] = {} \/ path[Len(path)] = key

\* C27: get_complete_paths(G, start) ends for every finite graph and every
\* start node, and every path it returns begins at start, follows edges of G
\* and ends at a sink or at start.
C27_PathsEnd ==
    (After("get_complete_paths") /\ Sound(call.graph)) =>
        /\ outcome.exc = ""
        /\ \A path \in outcome.value : CompleteFrom(call.graph, call.args[1], path)

(***************************************************************************)
(* Properties of the component registry.                                    *)
(***************************************************************************)
\* the tags the platform holds
Held(p) == ODKeys(p.v)

\* the item the loop of line 154 handled went through
ItemWentThrough == worker_pc' = "items"

\* C28: on a set platform the tags held are exactly the tags added with success
\* and not removed since: an add/component that succeeds adds its tag, one that
\* fails changes nothing, a remove/component takes its tag out; and
\* get/components returns exactly the tags held, each once.
C28_ExactlyAdded ==
    [][(InBatch /\ items_left > 0 /\ platform # PyNone) =>
          /\ (Handling("add", "component") /\ ItemWentThrough) =>
                 Held(platform') = Held(platform) \cup {CurrentItem.kwargs.key}
          /\ (Handling("add", "component") /\ ~ItemWentThrough) =>
                 Held(platform') = Held(platform)
          /\ Handling("remove", "component") =>
                 Held(platform') = Held(platform) \ {CurrentItem.kwargs.key}
          /\ Handling("get", "components") =>
                 /\ ItemWentThrough
                 /\ platform' = platform
                 /\ LET listed == merged'["get"]["components"].v
                    IN  /\ {listed[i] : i \in DOMAIN listed} = Held(platform)
                        /\ Len(listed) = Cardinality(Held(platform))]_vars

(***************************************************************************)
(* Properties of run.                                                       *)
(***************************************************************************)
\* C29: run on a network of more than one gate with an isolated gate warns of
\* the isolated gates and then resolves as it would without them: the start
\* gate is executed, and an isolated gate that is not the start gate is never
\* executed and never in resolved; run on any other network warns of nothing.
C29_IsolatedWarns ==
    pc # "idle" =>
        /\ log # <<>>
        /\ warned = IF Cardinality(DOMAIN graph) > 1 /\ GetIsolated(graph) # {}
                    THEN <<GetIsolated(graph)>> ELSE <<>>
        /\ \A tag \in GetIsolated(graph) \ {log[1].tag} :
               /\ \A i \in DOMAIN log : log[i].tag # tag
               /\ tag \notin DOMAIN resolved

QueueNames == {c.name : c \in QueueCalls}

\* C31: on a controller with no client set, every call that queues an item
\* and send_request raise, leave the request batch as it was and hand nothing
\* to the client.
C31_NoClient ==
    (call # <<>> /\ call.op \in QueueNames \cup {"send_request"}
       /\ call.controller.client = PyNone) =>
        /\ outcome.exc # ""
        /\ request_items = call.controller.request_items
        /\ handed = call.handed

\* send_request was refused with a batch pending and no client
C31_Witness ==
    /\ After("send_request")
    /\ call.controller.client = PyNone
    /\ call.controller.request_items # <<>>
    /\ outcome.exc = "NotImplementedError"
    /\ request_items = call.controller.request_items
    /\ handed = <<>>

\* Gate.run has returned
RunReturned == After("run") /\ outcome.exc = ""

\* the gate as the procedure of the last activation left it
Left == activation[1].left[1]

\* the batches handed to the client after the procedure returned
HandedAfter == SubSeq(handed, Len(Left.handed) + 1, Len(handed))

EndsWith(batch, tail) ==
    /\ Len(tail) <= Len(batch)
    /\ SubSeq(batch, Len(batch) - Len(tail) + 1, Len(batch)) = tail

\* the feed of the gate is the input of run while the procedure executes
\* and None when run has returned
FeedEphemeral ==
    /\ gate_pc = "procedure" => gate_feed = activation[1].feed
    /\ RunReturned => gate_feed = PyNone

\* C32: when Gate.run returns the batch is empty; if the procedure queued
\* items and a client is set, exactly one request carrying all of them in
\* queueing order was sent after the procedure returned, and if it queued
\* none no request was sent; the feed is the input of run while the procedure
\* executes and None when run has returned.
C32_Flushed ==
    /\ FeedEphemeral
    /\ RunReturned =>
          /\ request_items = <<>>
          /\ (activation[1].queued # <<>> /\ client # PyNone) =>
                 /\ Len(HandedAfter) = 1
                 /\ EndsWith(HandedAfter[1], activation[1].queued)
          /\ activation[1].queued = <<>> => HandedAfter = <<>>

\* C32 as the code has it: when Gate.run returns, if a client was set and the
\* batch was not empty when the procedure returned, exactly one request
\* carrying that whole batch was sent after the procedure returned and the
\* batch is empty, and otherwise no request was sent after the procedure
\* returned and the batch is as the procedure left it; when the procedure
\* handed nothing to the client itself, the batch it left is the batch run
\* found followed by the items the procedure queued, in queueing order; the
\* feed is the input of run while the procedure executes and None when run
\* has returned.
C32_FlushedWhenStored ==
    /\ FeedEphemeral
    /\ RunReturned =>
          /\ IF Left.controller.client # PyNone /\ Left.controller.request_items # <<>>
             THEN /\ HandedAfter = <<Left.controller.request_items>>
                  /\ request_items = <<>>
             ELSE /\ HandedAfter = <<>>
                  /\ request_items = Left.controller.request_items
          /\ Left.handed = <<>> =>
                 Left.controller.request_items
                     = activation[1].found \o activation[1].queued

\* run was given a feed, its procedure queued two items and run sent them
C32_Witness ==
    /\ RunReturned
    /\ activation[1].feed = X1
    /\ Len(activation[1].queued) = 2
    /\ HandedAfter = <<activation[1].queued>>
    /\ request_items = <<>>
    /\ gate_feed = PyNone

(***************************************************************************)
(* Properties of the dotted-path lookup.                                    *)
(***************************************************************************)
\* the value a route addresses in a value: the value itself at the end of the
\* route, the item of a mapping that has the segment, and not found (None)
\* everywhere else
RECURSIVE Addressed(_, _)
Addressed(route, value) ==
    IF route = <<>> THEN value
    ELSE IF value.k = "dict" /\ Head(route) \in DOMAIN value.v
         THEN Addressed(Tail(route), value.v[Head(route)])
         ELSE PyNone

\* C33: get_nested(path, mapping) never raises: it returns the addressed
\* value when every segment exists and None otherwise, also when the path
\* continues past a value that is not a mapping.
C33_NeverRaises ==
    After("get_nested") =>
        /\ outcome.exc = ""
        /\ outcome.value = Addressed(Split(call.args[1], "."), call.args[2])

(***************************************************************************)
(* Termination of run.                                                      *)
(***************************************************************************)
\* the edges of the network, conditional and unconditional together
AllEdges == {e \in (DOMAIN graph) \X Tags : e[2] \in graph[e[1]]}

EdgeGraphAcyclic == \A tag \in DOMAIN graph : ~OnCycle(tag, AllEdges)

ExecutionsOf(tag) == {i \in DOMAIN log : log[i].tag = tag}

\* C35: no gate executes twice in one epoch; and in the diamond A -> B,
\* A -> C, B -> D, C -> D started at A, D executes at most once, in epoch 2,
\* the epoch after B and C executed, on a feed that holds the keys of the
\* results of both, each with the value one of the two results gives it; and
\* once epoch 2 has ended D has executed and neither B nor C is in current.
C35_DiamondOnce ==
    /\ \A i, j \in DOMAIN log :
           (i # j /\ log[i].tag = log[j].tag) => log[i].epoch # log[j].epoch
    /\ (IsNetwork(Diamond) /\ Started /\ StartTag = "A") =>
          /\ Cardinality(ExecutionsOf("D")) <= 1
          /\ \A i \in ExecutionsOf("D"), b \in ExecutionsOf("B"), c \in ExecutionsOf("C") :
                /\ log[i].epoch = 2
                /\ log[b].epoch = 1 /\ log[c].epoch = 1
                /\ DOMAIN log[i].feed.v = DOMAIN log[b].result.v \cup DOMAIN log[c].result.v
                /\ \A key \in DOMAIN log[i].feed.v :
                       \E parent \in {b, c} :
                           /\ key \in DOMAIN log[parent].result.v
                           /\ log[i].feed.v[key] = log[parent].result.v[key]
          /\ (EpochEnded /\ epoch_count >= 2) =>
                /\ Cardinality(ExecutionsOf("D")) = 1
                /\ ExecutionsOf("B") # {} /\ ExecutionsOf("C") # {}
                /\ {"B", "C"} \cap ODKeys(current_generation) = {}

\* the run on the diamond has returned; D ran once, on the keys x and y
C35_Witness ==
    /\ IsNetwork(Diamond) /\ Started /\ StartTag = "A"
    /\ pc = "done" /\ epoch_count = 3
    /\ \E i \in ExecutionsOf("D") : DOMAIN log[i].feed.v = {Kx, Ky}
    /\ Cardinality(ExecutionsOf("D")) = 1

(***************************************************************************)
(* is_acyclic against reachability.                                         *)
(***************************************************************************)
GraphEdges(g) == {e \in (DOMAIN g) \X Keys : e[2] \in g[e[1]]}

\* some key of g is reached from itself over one edge or more
HasCycle(g) == \E key \in DOMAIN g : OnCycle(key, GraphEdges(g))

\* C36: whenever is_acyclic(G) returns, it returns False if and only if G
\* holds a directed cycle, through whichever nodes.
C36_AgreesWhenReturns ==
    (After("is_acyclic") /\ outcome.exc = "") =>
        outcome.value = PyBool(~HasCycle(call.graph))

\* is_acyclic returned False on a graph whose cycle b -> c -> b is not
\* through the node a
C36_Witness ==
    /\ After("is_acyclic")
    /\ call.graph = ("a" :> {}) @@ ("b" :> {"c"}) @@ ("c" :> {"b"})
    /\ outcome.exc = ""
    /\ outcome.value = PyBool(FALSE)

(***************************************************************************)
(* Properties of the conditional-edge table.                                *)
(***************************************************************************)
\* C37: whatever calls edited the network, every (from, to) key of the
\* conditional-edge table is an edge of the graph.
C37_TableWithinGraph ==
    \A edge \in DOMAIN conditional_edges :
        edge[1] \in DOMAIN graph /\ edge[2] \in graph[edge[1]]

(***************************************************************************)
(* Properties of the registries of the worker.                              *)
(***************************************************************************)
\* C38: whatever requests the worker has handled, every routine of the
\* routine registry names an executor that is a component of the worker's
\* platform.
C38_ExecutorsHeld ==
    \A i \in DOMAIN routines :
        platform # PyNone /\ routines[i][2].executor \in Held(platform)

\* an add/component item fails: the loop of line 154 ends on it
AddComponentFails ==
    /\ Handling("add", "component")
    /\ platform # PyNone
    /\ ~ItemWentThrough

\* C39: an add/component that fails, for a type the platform does not support
\* or for a setup that lacks a required argument, leaves the component
\* registry of the platform as it was: a component the key held before is
\* still registered.
C39_FailedAddKeeps ==
    [][AddComponentFails => platform' = platform]_vars

\* the item the loop of line 154 is handling raises an error that line 139
\* catches: the handler returns a Response whose error is set
ItemCaught ==
    /\ InBatch
    /\ items_left > 0
    /\ response' # <<>>
    /\ DecodeResponse(response'[1]).error # PyNone

\* C40: nothing is rolled back when an item fails: when item k of a batch
\* raises a caught error the registries are those the items 1..k-1 left, with
\* whatever item k did before it raised, no later item is handled, and the
\* Response carries the error and no feedback, the results of the earlier get
\* items included.
C40_NotRolledBack ==
    [][ItemCaught =>
          LET before == InOrder(start[1], HandledSoFar, EmptyMap)
              failed == ProcessRequestItem(before.w, CurrentItem, before.result)
          IN  /\ before.exc = ""
              /\ Registries = before.w
              /\ failed.exc \in CaughtErrors
              /\ platform' = failed.w.platform
              /\ routines' = failed.w.routines
              /\ worker_pc' = "idle"
              /\ items_left' = 0
              /\ "feedback" \notin DOMAIN response'[1]
              /\ DecodeResponse(response'[1]).feedback = PyNone
              /\ DecodeResponse(response'[1]).error = ErrorString(failed.exc, failed.msg)]_vars

\* a routine on the missing component z was refused: the response carries the
\* error alone, and the component x an earlier item added is still held
C40_Witness ==
    /\ worker_pc = "idle"
    /\ response # <<>>
    /\ DecodeResponse(response[1]).error
           = ErrorString("RuntimeError", <<"component_not_found", "z">>)
    /\ DecodeResponse(response[1]).feedback = PyNone
    /\ platform # PyNone
    /\ Held(platform) = {"x"}
    /\ routines = <<>>
====
